---- MODULE Spec2Model ----
(***************************************************************************)
(* TseinDNS: a caching, forwarding DNS resolver.                           *)
(*                                                                         *)
(* The module models four parts of the repository as state machines:       *)
(*   - the per-connection stream workers (comm/stream/worker.rs for        *)
(*     TCP/TLS, comm/stream/quic.rs for QUIC streams);                     *)
(*   - the UDP upstream forwarder (comm/mod.rs, Manager::run_forward, and  *)
(*     the stand-alone reader loop of comm/forward.rs);                    *)
(*   - the cache with fill-on-miss (cache/mod.rs) and the transaction      *)
(*     engine of main.rs;                                                  *)
(*   - the wire codec of protocol/ (header, names, record data,            *)
(*     questions, records and whole packets), byte by byte.                *)
(* Each part has its own next-state relation and specification over the    *)
(* same variables; a part leaves the variables of the others unchanged.    *)
(***************************************************************************)
EXTENDS Integers, Sequences, FiniteSets, TLC

(***************************************************************************)
(* Bounds of the model.                                                    *)
(***************************************************************************)
\* frames read from one client stream
MaxFrames == 3
\* records the engine sends for one query
MaxAnswers == 1
\* tasks handed to the upstream forwarder
MaxTasks == 2
\* largest transaction id random() returns in the model
MaxId == 1
\* datagrams the upstream reader receives
MaxDgrams == 2
\* concurrent or successive lookups of the cache
MaxLookups == 2
\* answers the forwarder sends for one forwarded question
MaxFill == 2
\* tasks the transaction engine takes
MaxTx == 2
\* tasks the QUIC forwarder takes
MaxQuicTasks == 2
\* datagrams the UDP server receives
MaxUdp == 2
\* connections a stream service accepts
MaxConns == 3
\* messages waiting in the channel of a stream service
MaxMessages == 2

(***************************************************************************)
(* Program constants.                                                      *)
(***************************************************************************)
\* u16::MAX, the largest frame write_packet emits as is
U16Max == 65535
\* capacity of the channel between run_forward and its sending task
BufCap == 4
\* forward(): the initial and the error value of min_ttl, in seconds
DefaultTtl == 600
\* DnsCache::new: time_to_live of the moka cache, in seconds
CacheTtl == 600
\* get_time_out: the transaction timeout, in seconds
TimeOut == 5
\* run_udp: the least length of a datagram that is looked at, in bytes
MinDgram == 12

(***************************************************************************)
(* Value domains.                                                          *)
(***************************************************************************)
\* transaction ids carried by client packets (a small slice of u16)
Ids == {1, 2}
\* the id of a TransactionError whose header could not be read (id: None)
NoId == -1
\* PacketError kinds an answer channel carries in this model
ErrKinds == {"ServFail", "NameError"}
\* resource records, abstracted to a name; "big" is a record near 64 kB
Recs == {"a", "big"}
\* section tags of Answer
Tags == {"Answer", "NameServer", "Additional"}

VARIABLES
    \* ---- stream worker (worker.rs / quic.rs) ----
    proto,          \* "stream": Worker::run, "quic": quic.rs worker
    w_pc,           \* "Idle" | "Reading" | "Collecting" | "Closed" | "Panicked"
    is_suspected,   \* the worker's local flag
    rd,             \* frames parse_stream has returned so far, in order
    wr,             \* packets written to the stream, in order
    wr_failed,      \* a write to the stream has failed
    pkt_id,         \* id of the query being served
    answers,        \* the three buckets of the query being served
    auths,
    additionals,
    errs,           \* indices in rd of the queries whose channel gave Answer::Error
    checker,        \* the one-shot shutdown receiver: "Empty" | "Closed"
    updater,        \* Messages sent to the pool, in order
    \* ---- UDP upstream forwarder (comm/mod.rs run_forward, comm/forward.rs) ----
    reader,         \* which reader loop runs: "run_forward" | "forward_rs"
    mp,             \* in-flight table: id -> task holding the one-shot sender, 0 if none
    n_tasks,        \* tasks taken from recur_receiver so far
    task_q,         \* question of each task
    task_id,        \* id minted for each task
    main_pc,        \* "recv": awaiting a task, "sending": entry inserted, packet not queued
    buf,            \* the channel buf_sender -> buf_receiver (capacity 4)
    wire,           \* query packets emitted on the upstream socket
    rx,             \* each task's one-shot receiver
    rx_val,         \* the answers put into each task's one-shot channel
    chk,            \* each task's checker: "none" | "waiting" | "done"
    sink,           \* what each task's answer_sender has been sent, in order
    listening,      \* the reader task: "running" | "panicked"
    dgram,          \* the last datagram the reader received
    n_dgrams,       \* datagrams the reader has received so far
    garbled,        \* ids of the unparsable datagrams received
    \* ---- time ----
    now,            \* time::Instant::now(), in seconds since the start
    \* ---- cache with fill-on-miss (cache/mod.rs) ----
    cache,          \* the moka cache: Question -> (Data, ddl) with its insertion time
    filling,        \* per key: an init future of get_with_if is being evaluated
    fwd_answers,    \* forward(): the answers collected for the key so far
    fwd_min_ttl,    \* forward(): min_ttl
    rec_sent,       \* per question: Tasks forward() has sent to the forwarder
    lk_q,           \* each lookup's question
    lk_pc,          \* "idle" | "init" | "wait" | "ready" | "done" | "panicked"
    lk_got,         \* what get_with_if returned to the lookup: the data ...
    lk_ddl,         \* ... and the deadline
    lk_hit,         \* the lookup was served from a stored entry
    lk_res,         \* the Vec<Answer> the lookup returned
    \* ---- transaction engine (main.rs) ----
    tcache,         \* the cache the engine consults: Question -> (rdata, ddl)
    n_tx,           \* tasks the engine has taken so far
    tx_q,           \* each task's question
    tx_pc,          \* "none" | "forwarding" | "done" | "panicked"
    tx_cached,      \* the forwarding task's local flag
    tx_sink,        \* what each task's ans_sender has been sent, in order
    tx_got,         \* what each forwarding task has received from upstream
    tx_sent,        \* per question: Tasks sent to rec_sender
    \* ---- QUIC upstream forwarder (comm/client.rs) ----
    qf_run,         \* QuicForwarder::run: "running" | "panicked"
    qf_n,           \* tasks the forwarder has taken from its queue
    qf_q,           \* each task's question
    qf_at,          \* the instant each task was taken
    qf_open,        \* how open_bi went: "none" | "first" | "retried" | "failed"
    qf_pc,          \* each task: "none" | "reading" | "closed" | "panicked"
    qf_sink,        \* what each task's ans_to has been sent, in order
    \* ---- UDP server (comm/mod.rs run_udp) ----
    u_n,            \* datagrams the server has received
    u_in,           \* each datagram received
    u_pc,           \* "none" | "dropped" | "waiting" | "done" | "panicked"
    u_out,          \* the datagrams sent back for each datagram, in order
    u_failed,       \* a send_to for the datagram returned an error
    u_tasks,        \* Tasks sent to the engine for each datagram
    u_emitted,      \* what the engine had sent on the answer channel of each
                    \* datagram's query when the transaction returned
    \* ---- wire codec (protocol/) ----
    c_fn,           \* the function last applied: "none" or its name
    c_in,           \* the input it was applied to
    c_out,          \* what it returned
    \* ---- stream service (comm/stream/service.rs, tcp.rs, tls.rs) ----
    sv_accepting,   \* the accept loop of the listening task is running
    sv_acquired,    \* how the last acquire went: "none" | "ok" | "accept" | "handshake"
    sv_n,           \* workers spawned so far
    sv_client,      \* each worker's peer address
    sv_run,         \* each worker: "none" | "serving" | "finished"
    sv_checker,     \* each worker's one-shot receiver: "Empty" | "Closed"
    sv_pool,        \* the pool: peer address -> worker whose sender it holds, 0 if none
    sv_message      \* the channel from the workers' bell to the updating task

worker_vars == <<proto, w_pc, is_suspected, rd, wr, wr_failed, pkt_id,
                 answers, auths, additionals, errs, checker, updater>>

forward_vars == <<reader, mp, n_tasks, task_q, task_id, main_pc, buf, wire, rx,
                  rx_val, chk, sink, listening, dgram, n_dgrams, garbled>>

cache_vars == <<cache, filling, fwd_answers, fwd_min_ttl, rec_sent, lk_q, lk_pc,
                lk_got, lk_ddl, lk_hit, lk_res>>

tx_vars == <<tcache, n_tx, tx_q, tx_pc, tx_cached, tx_sink, tx_got, tx_sent>>

quic_vars == <<qf_run, qf_n, qf_q, qf_at, qf_open, qf_pc, qf_sink>>

udp_vars == <<u_n, u_in, u_pc, u_out, u_failed, u_tasks, u_emitted>>

codec_vars == <<c_fn, c_in, c_out>>

service_vars == <<sv_accepting, sv_acquired, sv_n, sv_client, sv_run,
                  sv_checker, sv_pool, sv_message>>

vars == <<worker_vars, forward_vars, now, cache_vars, tx_vars, quic_vars, udp_vars,
          codec_vars, service_vars>>

\* what the actions of each part leave alone
not_worker == <<forward_vars, now, cache_vars, tx_vars, quic_vars, udp_vars, codec_vars,
              service_vars>>
not_forward == <<worker_vars, now, cache_vars, tx_vars, quic_vars, udp_vars, codec_vars,
              service_vars>>
not_cache == <<worker_vars, forward_vars, tx_vars, quic_vars, udp_vars, codec_vars,
              service_vars>>
not_tx == <<worker_vars, forward_vars, cache_vars, quic_vars, udp_vars, codec_vars,
              service_vars>>
not_quic == <<worker_vars, forward_vars, cache_vars, tx_vars, udp_vars, codec_vars,
              service_vars>>
not_udp == <<worker_vars, forward_vars, now, cache_vars, tx_vars, quic_vars, codec_vars,
              service_vars>>
not_codec == <<worker_vars, forward_vars, now, cache_vars, tx_vars, quic_vars, udp_vars,
              service_vars>>
not_service == <<worker_vars, forward_vars, now, cache_vars, tx_vars, quic_vars, udp_vars,
                codec_vars>>

(***************************************************************************)
(* Packets written by the worker.  "for" is the index in rd of the frame   *)
(* whose handling wrote the packet.                                        *)
(***************************************************************************)
\* Packet::new_failure + Header::new_failure: id, rcode, no records
new_failure(id, error) ==
    [kind |-> "failure", id |-> id, rcode |-> error,
     answers |-> <<>>, auths |-> <<>>, additionals |-> <<>>]

\* Packet::new_plain_answer followed by set_question/set_answers/...
new_plain_answer(id, an, ns, ar) ==
    [kind |-> "answer", id |-> id, rcode |-> "NoError",
     answers |-> an, auths |-> ns, additionals |-> ar]

\* encoded size of one record (name, fixed part, rdata)
RRLen(r) == IF r = "big" THEN 65530 ELSE 31

RECURSIVE SumLen(_)
SumLen(s) == IF s = <<>> THEN 0 ELSE RRLen(Head(s)) + SumLen(Tail(s))

\* length of Packet::into_bytes: header, question, records
PacketLen(p) ==
    12 + (IF p.kind = "answer" THEN 17 ELSE 0)
       + SumLen(p.answers) + SumLen(p.auths) + SumLen(p.additionals)

\* write_packet: the bytes that reach the stream when the write succeeds
write_packet(p) ==
    IF PacketLen(p) > U16Max THEN new_failure(p.id, "ServFail") ELSE p

\* stream_fail: a failure packet for a TransactionError, id None becoming 0
stream_fail(id, error) ==
    write_packet(new_failure(IF id = NoId THEN 0 ELSE id, error))

\* the stream w after writing packet p while handling frame number i
Written(w, p, i, ok) ==
    IF ok THEN Append(w, [for |-> i] @@ p) ELSE w

(***************************************************************************)
(* Frames as Packet::parse_stream classifies them.                         *)
(*   eof       Err(ServFail): the length prefix could not be read          *)
(*   format    any other Err (FormatError), its id known or None           *)
(*   nonquery  Ok(packet) with the QR bit set                              *)
(*   query     Ok(packet), a query carrying its question                   *)
(*   query_noq Ok(packet), a query with qdcount = 0 (question is None)     *)
(***************************************************************************)
FrameKinds == {"eof", "format", "nonquery", "query", "query_noq"}

Frames ==
    [kind : {"eof"}, id : {NoId}]
    \cup [kind : {"format"}, id : Ids \cup {NoId}]
    \cup [kind : {"nonquery", "query", "query_noq"}, id : Ids]

\* where the loop of the worker resumes: Worker::run re-tests the shutdown
\* receiver (worker.rs:75), the QUIC worker goes straight to the next read
LoopTop == IF proto = "quic" THEN "Reading" ELSE "Idle"

\* leaving the worker: Worker::run tells the pool, the QUIC worker does not
Quit ==
    /\ w_pc' = "Closed"
    /\ updater' = IF proto = "quic" THEN updater ELSE Append(updater, "ShutDown")

InitWorker ==
    /\ proto \in {"stream", "quic"}
    /\ w_pc = IF proto = "quic" THEN "Reading" ELSE "Idle"
    /\ is_suspected = FALSE
    /\ rd = <<>>
    /\ wr = <<>>
    /\ wr_failed = FALSE
    /\ pkt_id = NoId
    /\ answers = <<>>
    /\ auths = <<>>
    /\ additionals = <<>>
    /\ errs = {}
    /\ checker = "Empty"
    /\ updater = <<>>

\* the pool drops the worker's one-shot sender (entry removed, expired or
\* replaced): service.rs:99,116
PoolDrop ==
    /\ proto = "stream"
    /\ checker = "Empty"
    /\ w_pc \notin {"Closed", "Panicked"}
    /\ checker' = "Closed"
    /\ UNCHANGED <<proto, w_pc, is_suspected, rd, wr, wr_failed, pkt_id,
                   answers, auths, additionals, errs, updater>>
    /\ UNCHANGED not_worker

\* worker.rs:75-79: the loop condition and the Update message
LoopHead ==
    /\ proto = "stream"
    /\ w_pc = "Idle"
    /\ IF checker = "Empty"
       THEN /\ updater' = Append(updater, "Update")
            /\ w_pc' = "Reading"
       ELSE Quit
    /\ UNCHANGED <<proto, is_suspected, rd, wr, wr_failed, pkt_id,
                   answers, auths, additionals, errs, checker>>
    /\ UNCHANGED not_worker

\* worker.rs:81-140, quic.rs:50-110: one frame is read and classified
ReadFrame(f, ok) ==
    /\ w_pc = "Reading"
    /\ Len(rd) < MaxFrames
    /\ rd' = Append(rd, f)
    /\ LET i == Len(rd) + 1 IN
       CASE f.kind = "eof" ->
              /\ Quit
              /\ UNCHANGED <<is_suspected, wr, wr_failed, pkt_id>>
         [] f.kind = "format" ->
              /\ wr' = Written(wr, stream_fail(f.id, "FormatError"), i, ok)
              /\ wr_failed' = (wr_failed \/ ~ok)
              /\ IF ~ok \/ is_suspected
                 THEN Quit /\ UNCHANGED is_suspected
                 ELSE /\ is_suspected' = TRUE
                      /\ w_pc' = LoopTop
                      /\ UNCHANGED updater
              /\ UNCHANGED pkt_id
         [] f.kind = "nonquery" ->
              /\ wr' = Written(wr, stream_fail(f.id, "FormatError"), i, ok)
              /\ wr_failed' = (wr_failed \/ ~ok)
              /\ IF ~ok \/ is_suspected
                 THEN Quit /\ UNCHANGED is_suspected
                 ELSE /\ is_suspected' = (IF proto = "quic" THEN TRUE ELSE is_suspected)
                      /\ w_pc' = LoopTop
                      /\ UNCHANGED updater
              /\ UNCHANGED pkt_id
         [] f.kind = "query" ->
              /\ is_suspected' = FALSE
              /\ pkt_id' = f.id
              /\ w_pc' = "Collecting"
              /\ UNCHANGED <<wr, wr_failed, updater>>
         [] f.kind = "query_noq" ->
              \* question.unwrap() on None: the task panics
              /\ is_suspected' = FALSE
              /\ w_pc' = "Panicked"
              /\ UNCHANGED <<wr, wr_failed, pkt_id, updater>>
    /\ answers' = <<>>
    /\ auths' = <<>>
    /\ additionals' = <<>>
    /\ UNCHANGED <<proto, errs, checker>>
    /\ UNCHANGED not_worker

\* worker.rs:174-178, quic.rs:144-148: the response assembled from the buckets
Assembled == new_plain_answer(pkt_id, answers, auths, additionals)

\* worker.rs:163-171, quic.rs:133-141: one record arrives on the answer channel
RecvRecord(tag, r) ==
    /\ w_pc = "Collecting"
    /\ Len(answers) + Len(auths) + Len(additionals) < MaxAnswers
    /\ answers' = IF tag = "Answer" THEN Append(answers, r) ELSE answers
    /\ auths' = IF tag = "NameServer" THEN Append(auths, r) ELSE auths
    /\ additionals' = IF tag = "Additional" THEN Append(additionals, r) ELSE additionals
    /\ UNCHANGED <<proto, w_pc, is_suspected, rd, wr, wr_failed, pkt_id,
                   errs, checker, updater>>
    /\ UNCHANGED not_worker

\* worker.rs:147-162 then 174-186, quic.rs:117-132 then 144-157: an
\* Answer::Error arrives; the failure is written, the inner loop is left by
\* break, and the code after the loop assembles and writes the answer packet
RecvError(e, ok1, ok2) ==
    /\ w_pc = "Collecting"
    /\ LET i == Len(rd)
           w1 == Written(wr, stream_fail(pkt_id, e), i, ok1)
       IN IF ~ok1 \/ (proto = "quic" /\ is_suspected)
          THEN /\ wr' = w1
               /\ wr_failed' = (wr_failed \/ ~ok1)
               /\ Quit
               /\ UNCHANGED is_suspected
          ELSE /\ is_suspected' = (IF proto = "quic" THEN TRUE ELSE is_suspected)
               /\ wr' = Written(w1, write_packet(Assembled), i, ok2)
               /\ wr_failed' = (wr_failed \/ ~ok2)
               /\ IF ok2 THEN w_pc' = LoopTop /\ UNCHANGED updater ELSE Quit
    /\ errs' = errs \cup {Len(rd)}
    /\ UNCHANGED <<proto, rd, pkt_id, answers, auths, additionals, checker>>
    /\ UNCHANGED not_worker

\* worker.rs:145 then 174-186, quic.rs:115 then 144-157: the answer channel
\* is closed by the engine; the answer packet is assembled and written
RecvClosed(ok) ==
    /\ w_pc = "Collecting"
    /\ wr' = Written(wr, write_packet(Assembled), Len(rd), ok)
    /\ wr_failed' = (wr_failed \/ ~ok)
    /\ IF ok THEN w_pc' = LoopTop /\ UNCHANGED updater ELSE Quit
    /\ UNCHANGED <<proto, is_suspected, rd, pkt_id, answers, auths, additionals,
                   errs, checker>>
    /\ UNCHANGED not_worker

NextWorker ==
    \/ PoolDrop
    \/ LoopHead
    \/ \E f \in Frames, ok \in BOOLEAN : ReadFrame(f, ok)
    \/ \E tag \in Tags, r \in Recs : RecvRecord(tag, r)
    \/ \E e \in ErrKinds, ok1, ok2 \in BOOLEAN : RecvError(e, ok1, ok2)
    \/ \E ok \in BOOLEAN : RecvClosed(ok)

(***************************************************************************)
(* The UDP upstream forwarder: Manager::run_forward (comm/mod.rs) with its  *)
(* three kinds of task (main loop, reader, per-query checker) and the       *)
(* packet-sending task, and the reader loop of comm/forward.rs.             *)
(***************************************************************************)
Tasks == 1..MaxTasks
\* ids random::<u16>() can return (a slice of 0..65535)
UpIds == 0..MaxId
Questions == {"q1", "q2"}
NoTask == 0

\* Answer values: a record with its section tag, or an error
Rec(tag, q) == [tag |-> tag, rr |-> q]
Err(e) == [tag |-> "Error", rr |-> e]

\* the response the upstream gives to question q, as Packet sections
UpstreamPacket(q) ==
    IF q = "q1"
    THEN [answers |-> <<"q1">>, authorities |-> <<>>, additions |-> <<"q1">>]
    ELSE [answers |-> <<q>>, authorities |-> <<q>>, additions |-> <<>>]

RECURSIVE Tagged(_, _)
Tagged(tag, s) ==
    IF s = <<>> THEN <<>> ELSE <<Rec(tag, Head(s))>> \o Tagged(tag, Tail(s))

\* comm/mod.rs:85-91, forward.rs:26-32: the sections chained into one vector
Chain(p) ==
    Tagged("Answer", p.answers) \o Tagged("NameServer", p.authorities)
        \o Tagged("Additional", p.additions)

NoDgram == [kind |-> "none", id |-> NoId, q |-> "none"]

\* datagrams the upstream socket can yield: a response to an emitted query,
\* a well-formed packet with an id no task was given, a packet that fails to
\* parse (its id readable or not), a datagram shorter than 20 bytes
Dgrams ==
    {[kind |-> "ok", id |-> p.id, q |-> p.q] : p \in wire}
    \cup {[kind |-> "ok", id |-> i, q |-> "stray"] :
             i \in {j \in UpIds : \A t \in 1..n_tasks : task_id[t] # j}}
    \cup {[kind |-> "malformed", id |-> i, q |-> "none"] :
             i \in {p.id : p \in wire} \cup {NoId}}
    \cup {[kind |-> "short", id |-> NoId, q |-> "none"]}

InitForward ==
    /\ reader \in {"run_forward", "forward_rs"}
    /\ mp = [i \in UpIds |-> NoTask]
    /\ n_tasks = 0
    /\ task_q = [t \in Tasks |-> "none"]
    /\ task_id = [t \in Tasks |-> NoId]
    /\ main_pc = "recv"
    /\ buf = <<>>
    /\ wire = {}
    /\ rx = [t \in Tasks |-> "none"]
    /\ rx_val = [t \in Tasks |-> <<>>]
    /\ chk = [t \in Tasks |-> "none"]
    /\ sink = [t \in Tasks |-> <<>>]
    /\ listening = "running"
    /\ dgram = NoDgram
    /\ n_dgrams = 0
    /\ garbled = {}

\* comm/mod.rs:121: the id given to a new task, when random() returns id
MintId(id) == id

\* BTreeMap::insert: the one-shot sender the entry held before is dropped,
\* which closes the channel of a receiver that still waits on it
DropSender(t) ==
    IF t # NoTask /\ rx[t] = "pending" THEN [rx EXCEPT ![t] = "closed"] ELSE rx

\* the task taken and its id minted with the insertion left for later
TakeTaskNoInsert(q, id) ==
    /\ main_pc = "recv"
    /\ n_tasks < MaxTasks
    /\ n_tasks' = n_tasks + 1
    /\ task_q' = [task_q EXCEPT ![n_tasks + 1] = q]
    /\ task_id' = [task_id EXCEPT ![n_tasks + 1] = MintId(id)]
    /\ main_pc' = "sending"
    /\ UNCHANGED <<reader, mp, rx, buf, wire, rx_val, chk, sink, listening, dgram,
                   n_dgrams, garbled>>
    /\ UNCHANGED not_forward

\* comm/mod.rs:119-131: a task is taken, an id is minted, the one-shot
\* sender is inserted into the table under that id
TakeTask(q, id) ==
    /\ main_pc = "recv"
    /\ n_tasks < MaxTasks
    /\ LET t == n_tasks + 1
           i == MintId(id)
       IN /\ n_tasks' = t
          /\ task_q' = [task_q EXCEPT ![t] = q]
          /\ task_id' = [task_id EXCEPT ![t] = i]
          /\ rx' = [DropSender(mp[i]) EXCEPT ![t] = "pending"]
          /\ mp' = [mp EXCEPT ![i] = t]
    /\ main_pc' = "sending"
    /\ UNCHANGED <<reader, buf, wire, rx_val, chk, sink, listening, dgram,
                   n_dgrams, garbled>>
    /\ UNCHANGED not_forward

\* comm/mod.rs:133-161: the query packet is queued for the sending task
\* (the send waits while the channel is full) and the checker is spawned
SendBuf ==
    /\ main_pc = "sending"
    /\ Len(buf) < BufCap
    /\ buf' = Append(buf, [id |-> task_id[n_tasks], q |-> task_q[n_tasks]])
    /\ chk' = [chk EXCEPT ![n_tasks] = "waiting"]
    /\ main_pc' = "recv"
    /\ UNCHANGED <<reader, mp, n_tasks, task_q, task_id, wire, rx, rx_val, sink,
                   listening, dgram, n_dgrams, garbled>>
    /\ UNCHANGED not_forward

\* comm/mod.rs:111-115: the sending task emits the next queued packet
Forwarding ==
    /\ buf # <<>>
    /\ wire' = wire \cup {Head(buf)}
    /\ buf' = Tail(buf)
    /\ UNCHANGED <<reader, mp, n_tasks, task_q, task_id, main_pc, rx, rx_val,
                   chk, sink, listening, dgram, n_dgrams, garbled>>
    /\ UNCHANGED not_forward

\* comm/mod.rs:93-97, forward.rs:33-38 and 45-50: the entry under id is
\* removed and the answers are sent to its sender; sender.send(..).unwrap()
\* panics when the receiver is gone
Deliver(id, v) ==
    LET t == mp[id] IN
    IF t = NoTask
    THEN UNCHANGED <<mp, rx, rx_val, listening>>
    ELSE /\ mp' = [mp EXCEPT ![id] = NoTask]
         /\ IF rx[t] = "pending"
            THEN /\ rx' = [rx EXCEPT ![t] = "value"]
                 /\ rx_val' = [rx_val EXCEPT ![t] = v]
                 /\ UNCHANGED listening
            ELSE /\ listening' = "panicked"
                 /\ UNCHANGED <<rx, rx_val>>

\* comm/mod.rs:70-107, forward.rs:12-60: the reader receives one datagram
Listen(d) ==
    /\ listening = "running"
    /\ n_dgrams < MaxDgrams
    /\ n_dgrams' = n_dgrams + 1
    /\ dgram' = d
    /\ garbled' = IF d.kind = "malformed" THEN garbled \cup {d.id} ELSE garbled
    /\ CASE d.kind = "short" ->
              UNCHANGED <<mp, rx, rx_val, listening>>
         [] d.kind = "ok" ->
              Deliver(d.id, IF d.q = "stray" THEN <<Rec("Answer", "stray")>>
                            ELSE Chain(UpstreamPacket(d.q)))
         [] d.kind = "malformed" ->
              IF reader = "forward_rs" /\ d.id # NoId
              THEN Deliver(d.id, <<Err("FormatError")>>)
              ELSE UNCHANGED <<mp, rx, rx_val, listening>>
    /\ UNCHANGED <<reader, n_tasks, task_q, task_id, main_pc, buf, wire, chk, sink>>
    /\ UNCHANGED not_forward

\* comm/mod.rs:140-147: the transaction timeout elapses before the one-shot
\* channel yields anything; the receiver is dropped with the timeout future
Timeout(t) ==
    /\ chk[t] = "waiting"
    /\ rx[t] = "pending"
    /\ sink' = [sink EXCEPT ![t] = Append(@, Err("ServFail"))]
    /\ chk' = [chk EXCEPT ![t] = "done"]
    /\ rx' = [rx EXCEPT ![t] = "dropped"]
    /\ UNCHANGED <<reader, mp, n_tasks, task_q, task_id, main_pc, buf, wire,
                   rx_val, listening, dgram, n_dgrams, garbled>>
    /\ UNCHANGED not_forward

\* comm/mod.rs:148-159: the one-shot channel yields the answers, which are
\* sent on one by one, or reports that its sender was dropped
Check(t) ==
    /\ chk[t] = "waiting"
    /\ rx[t] \in {"value", "closed"}
    /\ sink' = [sink EXCEPT ![t] =
                  IF rx[t] = "value" THEN @ \o rx_val[t] ELSE Append(@, Err("ServFail"))]
    /\ chk' = [chk EXCEPT ![t] = "done"]
    /\ rx' = [rx EXCEPT ![t] = "taken"]
    /\ UNCHANGED <<reader, mp, n_tasks, task_q, task_id, main_pc, buf, wire,
                   rx_val, listening, dgram, n_dgrams, garbled>>
    /\ UNCHANGED not_forward

NextForward ==
    \/ \E q \in Questions, id \in UpIds : TakeTask(q, id)
    \/ SendBuf
    \/ Forwarding
    \/ \E d \in Dgrams : Listen(d)
    \/ \E t \in Tasks : Timeout(t)
    \/ \E t \in Tasks : Check(t)

(***************************************************************************)
(* Time.                                                                   *)
(***************************************************************************)
\* TTLs of the records the upstream returns, in seconds
TTLs == {2, 700}
\* the instants at which the program is observed, in milliseconds since the
\* start
Instants == {0, 500, 1000, 2000, 600000, 601000}

\* time::Duration::from_secs and Duration::as_secs, durations in milliseconds
from_secs(s) == s * 1000
as_secs(d) == d \div 1000

\* rr/mod.rs:80-85: the TTL of a record is kept as u32 seconds
get_ttl(a) == from_secs(a.ttl)

\* an Answer carrying a record with its TTL, and an error answer
RR(tag, q, ttl) == [tag |-> tag, rr |-> q, ttl |-> ttl]
ErrAns(e) == [tag |-> "Error", rr |-> e, ttl |-> 0]

\* the map with the rewriting left out: the records keep the upstream's TTLs
KeepTtl(data, ttl) == data

\* RR::set_ttl under the map of DnsCache::get (cache/mod.rs:49-65)
RECURSIVE SetTtl(_, _)
SetTtl(data, ttl) ==
    IF data = <<>> THEN <<>>
    ELSE <<IF Head(data).tag = "Error" THEN Head(data)
           ELSE [Head(data) EXCEPT !.ttl = as_secs(ttl)]>>
         \o SetTtl(Tail(data), ttl)

(***************************************************************************)
(* The cache of cache/mod.rs: DnsCache::get over moka's get_with_if, with  *)
(* forward() as the init future.                                           *)
(***************************************************************************)
Lookups == 1..MaxLookups

NoEntry == [present |-> FALSE, data |-> <<>>, ddl |-> 0, ins |-> 0]

InitCache ==
    /\ cache = [q \in Questions |-> NoEntry]
    /\ filling = [q \in Questions |-> FALSE]
    /\ fwd_answers = [q \in Questions |-> <<>>]
    /\ fwd_min_ttl = [q \in Questions |-> from_secs(DefaultTtl)]
    /\ rec_sent = [q \in Questions |-> 0]
    /\ lk_q = [l \in Lookups |-> "none"]
    /\ lk_pc = [l \in Lookups |-> "idle"]
    /\ lk_got = [l \in Lookups |-> <<>>]
    /\ lk_ddl = [l \in Lookups |-> 0]
    /\ lk_hit = [l \in Lookups |-> FALSE]
    /\ lk_res = [l \in Lookups |-> <<>>]

\* moka: the entry is held and its time_to_live has not run out
Held(e) == e.present /\ now < e.ins + from_secs(CacheTtl)

\* the closure with the comparison made strict: an entry whose deadline is
\* this very instant is kept
replace_if_strict(e) == e.ddl < now

\* cache/mod.rs:45: the replace_if closure of get_with_if
replace_if(e) == e.ddl <= now

\* a cache that evaluates the init future on every call
NoHit(e) == FALSE

\* get_with_if returns the stored value without evaluating the init future
Hit(e) == Held(e) /\ ~replace_if(e)

\* get_with_if: whether a call for key q must start an init future of its
\* own, given that none (f = FALSE) or one (f = TRUE) is being evaluated
StartsInit(f) == ~f

\* cache/mod.rs:39-47: DnsCache::get up to the point where get_with_if
\* returns or suspends
Get(l, q) ==
    /\ lk_pc[l] = "idle"
    /\ \A k \in Lookups : k < l => lk_pc[k] # "idle"
    /\ lk_q' = [lk_q EXCEPT ![l] = q]
    /\ LET e == cache[q] IN
       IF Hit(e)
       THEN /\ lk_pc' = [lk_pc EXCEPT ![l] = "ready"]
            /\ lk_got' = [lk_got EXCEPT ![l] = e.data]
            /\ lk_ddl' = [lk_ddl EXCEPT ![l] = e.ddl]
            /\ lk_hit' = [lk_hit EXCEPT ![l] = TRUE]
            /\ UNCHANGED <<filling, fwd_answers, fwd_min_ttl, rec_sent, lk_res>>
       ELSE IF StartsInit(filling[q])
       THEN \* forward() starts: cache/mod.rs:69-77
            /\ filling' = [filling EXCEPT ![q] = TRUE]
            /\ rec_sent' = [rec_sent EXCEPT ![q] = @ + 1]
            /\ fwd_answers' = [fwd_answers EXCEPT ![q] = <<>>]
            /\ fwd_min_ttl' = [fwd_min_ttl EXCEPT ![q] = from_secs(DefaultTtl)]
            /\ lk_pc' = [lk_pc EXCEPT ![l] = "init"]
            /\ UNCHANGED <<lk_got, lk_ddl, lk_hit, lk_res>>
       ELSE /\ lk_pc' = [lk_pc EXCEPT ![l] = "wait"]
            /\ UNCHANGED <<filling, fwd_answers, fwd_min_ttl, rec_sent,
                           lk_got, lk_ddl, lk_hit, lk_res>>
    /\ UNCHANGED <<now, cache>>
    /\ UNCHANGED not_cache

\* the record the forwarder sends for q after n others, with the TTL the
\* upstream gave it: the sections of the response in order
NextRecord(q, n, ttl) ==
    LET c == Chain(UpstreamPacket(q)) IN RR(c[n + 1].tag, c[n + 1].rr, ttl)

\* the update with the comparison left out: the last record's TTL wins
last_ttl(min_ttl, a) == get_ttl(a)

\* cache/mod.rs:88-92 (and 96-100, 104-108): the update of min_ttl
lesser_ttl(min_ttl, a) == IF min_ttl < get_ttl(a) THEN min_ttl ELSE get_ttl(a)

\* cache/mod.rs:87-110: forward() receives a record
FwdRecv(q, ttl) ==
    /\ filling[q]
    /\ Len(fwd_answers[q]) < MaxFill
    /\ Len(fwd_answers[q]) < Len(Chain(UpstreamPacket(q)))
    /\ LET a == NextRecord(q, Len(fwd_answers[q]), ttl) IN
         /\ fwd_min_ttl' = [fwd_min_ttl EXCEPT ![q] = lesser_ttl(@, a)]
         /\ fwd_answers' = [fwd_answers EXCEPT ![q] = Append(@, a)]
    /\ UNCHANGED <<now, cache, filling, rec_sent, lk_q, lk_pc, lk_got, lk_ddl,
                   lk_hit, lk_res>>
    /\ UNCHANGED not_cache

\* what forward() returns as Data after an error answer (cache/mod.rs:80-86)
ErrorData(e) == <<ErrAns(e)>>

\* get_with_if stores the value the init future returned, whatever it is,
\* and hands it to the call that ran the future and to the calls waiting
Store(q, data, min_ttl) ==
    /\ cache' = [cache EXCEPT ![q] =
                   [present |-> TRUE, data |-> data, ddl |-> now + min_ttl, ins |-> now]]
    /\ filling' = [filling EXCEPT ![q] = FALSE]
    /\ lk_pc' = [l \in Lookups |->
                   IF lk_q[l] = q /\ lk_pc[l] \in {"init", "wait"} THEN "ready"
                   ELSE lk_pc[l]]
    /\ lk_got' = [l \in Lookups |->
                   IF lk_q[l] = q /\ lk_pc[l] \in {"init", "wait"} THEN data
                   ELSE lk_got[l]]
    /\ lk_ddl' = [l \in Lookups |->
                   IF lk_q[l] = q /\ lk_pc[l] \in {"init", "wait"} THEN now + min_ttl
                   ELSE lk_ddl[l]]

\* cache/mod.rs:80-86 then 113-119: forward() receives an error answer
FwdError(q, e) ==
    /\ filling[q]
    /\ Store(q, ErrorData(e), from_secs(DefaultTtl))
    /\ fwd_answers' = [fwd_answers EXCEPT ![q] = ErrorData(e)]
    /\ fwd_min_ttl' = [fwd_min_ttl EXCEPT ![q] = from_secs(DefaultTtl)]
    /\ UNCHANGED <<now, rec_sent, lk_q, lk_hit, lk_res>>
    /\ UNCHANGED not_cache

\* cache/mod.rs:78 then 113-119: the answer channel of forward() is closed
FwdClosed(q) ==
    /\ filling[q]
    /\ Store(q, fwd_answers[q], fwd_min_ttl[q])
    /\ UNCHANGED <<now, fwd_answers, fwd_min_ttl, rec_sent, lk_q, lk_hit, lk_res>>
    /\ UNCHANGED not_cache

\* cache/mod.rs:48-65: get_with_if has returned, the clock is read again.
\* ddl - Instant::now() with the deadline already past is zero or a panic,
\* depending on the toolchain the program is built with.
Return(l, saturating) ==
    /\ lk_pc[l] = "ready"
    /\ IF now <= lk_ddl[l]
       THEN /\ lk_res' = [lk_res EXCEPT ![l] = SetTtl(lk_got[l], lk_ddl[l] - now)]
            /\ lk_pc' = [lk_pc EXCEPT ![l] = "done"]
       ELSE IF saturating
       THEN /\ lk_res' = [lk_res EXCEPT ![l] = SetTtl(lk_got[l], 0)]
            /\ lk_pc' = [lk_pc EXCEPT ![l] = "done"]
       ELSE /\ lk_pc' = [lk_pc EXCEPT ![l] = "panicked"]
            /\ UNCHANGED lk_res
    /\ UNCHANGED <<now, cache, filling, fwd_answers, fwd_min_ttl, rec_sent, lk_q,
                   lk_got, lk_ddl, lk_hit>>
    /\ UNCHANGED not_cache

\* time passes
Tick(t) ==
    /\ t > now
    /\ now' = t
    /\ UNCHANGED <<worker_vars, forward_vars, cache_vars, tx_vars, quic_vars, udp_vars,
                   codec_vars, service_vars>>

NextCache ==
    \/ \E l \in Lookups, q \in Questions : Get(l, q)
    \/ \E q \in Questions, ttl \in TTLs : FwdRecv(q, ttl)
    \/ \E q \in Questions, e \in ErrKinds : FwdError(q, e)
    \/ \E q \in Questions : FwdClosed(q)
    \/ \E l \in Lookups, saturating \in BOOLEAN : Return(l, saturating)
    \/ \E t \in Instants : Tick(t)

(***************************************************************************)
(* The transaction engine of main.rs: one Task::Query after the other,     *)
(* each miss handing the question to a forwarding task of its own.         *)
(***************************************************************************)
Txs == 1..MaxTx

NoRecord == [present |-> FALSE, rdata |-> "none", ddl |-> 0]

InitTx ==
    /\ tcache = [q \in Questions |-> NoRecord]
    /\ n_tx = 0
    /\ tx_q = [t \in Txs |-> "none"]
    /\ tx_pc = [t \in Txs |-> "none"]
    /\ tx_cached = [t \in Txs |-> FALSE]
    /\ tx_sink = [t \in Txs |-> <<>>]
    /\ tx_got = [t \in Txs |-> <<>>]
    /\ tx_sent = [q \in Questions |-> 0]

\* main.rs:95: the cache keeps the record's data until its TTL has run out
insert_rr(c, q, rr) ==
    [c EXCEPT ![q] = [present |-> TRUE, rdata |-> rr.rr, ddl |-> now + get_ttl(rr)]]

\* the test with the wrong sense of the comparison
OutDated(q) == tcache[q].present /\ tcache[q].ddl < now

\* main.rs:57-60: the cache has a record for q and it is on-dated
OnDated(q) == tcache[q].present /\ tcache[q].ddl > now

\* main.rs:53-85: the engine takes the next Task::Query
TxTask(q) ==
    /\ n_tx < MaxTx
    /\ n_tx' = n_tx + 1
    /\ tx_q' = [tx_q EXCEPT ![n_tx + 1] = q]
    /\ IF OnDated(q)
       THEN /\ tx_sink' = [tx_sink EXCEPT ![n_tx + 1] =
                             <<RR("Answer", tcache[q].rdata,
                                  as_secs(tcache[q].ddl - now))>>]
            /\ tx_pc' = [tx_pc EXCEPT ![n_tx + 1] = "done"]
            /\ UNCHANGED tx_sent
       ELSE /\ tx_sent' = [tx_sent EXCEPT ![q] = @ + 1]
            /\ tx_pc' = [tx_pc EXCEPT ![n_tx + 1] = "forwarding"]
            /\ UNCHANGED tx_sink
    /\ UNCHANGED <<now, tcache, tx_cached, tx_got>>
    /\ UNCHANGED not_tx

\* main.rs:87-106: the forwarding task receives an answer
TxAnswer(t, a) ==
    /\ tx_pc[t] = "forwarding"
    /\ Len(tx_got[t]) < MaxFill
    /\ tx_got' = [tx_got EXCEPT ![t] = Append(@, a)]
    /\ IF tx_cached[t]
       THEN /\ tx_sink' = [tx_sink EXCEPT ![t] = Append(@, a)]
            /\ UNCHANGED <<tcache, tx_cached, tx_pc>>
       ELSE IF a.tag = "Error"
       THEN \* main.rs:93: todo!()
            /\ tx_pc' = [tx_pc EXCEPT ![t] = "panicked"]
            /\ UNCHANGED <<tcache, tx_cached, tx_sink>>
       ELSE /\ tcache' = insert_rr(tcache, tx_q[t], a)
            /\ tx_cached' = [tx_cached EXCEPT ![t] = TRUE]
            /\ tx_sink' = [tx_sink EXCEPT ![t] = Append(@, a)]
            /\ UNCHANGED tx_pc
    /\ UNCHANGED <<now, n_tx, tx_q, tx_sent>>
    /\ UNCHANGED not_tx

\* main.rs:87-106 with the next record of the upstream's response
TxRecv(t, ttl) ==
    /\ tx_pc[t] = "forwarding"
    /\ Len(tx_got[t]) < Len(Chain(UpstreamPacket(tx_q[t])))
    /\ TxAnswer(t, NextRecord(tx_q[t], Len(tx_got[t]), ttl))

\* main.rs:87-106 with an error answer
TxError(t, e) ==
    /\ tx_pc[t] = "forwarding"
    /\ TxAnswer(t, ErrAns(e))

\* main.rs:87: the answer channel is closed
TxClosed(t) ==
    /\ tx_pc[t] = "forwarding"
    /\ tx_pc' = [tx_pc EXCEPT ![t] = "done"]
    /\ UNCHANGED <<now, tcache, n_tx, tx_q, tx_cached, tx_sink, tx_got, tx_sent>>
    /\ UNCHANGED not_tx

NextTx ==
    \/ \E q \in Questions : TxTask(q)
    \/ \E t \in Txs, ttl \in TTLs : TxRecv(t, ttl)
    \/ \E t \in Txs, e \in ErrKinds : TxError(t, e)
    \/ \E t \in Txs : TxClosed(t)
    \/ \E t \in Instants : Tick(t)

(***************************************************************************)
(* The QUIC upstream forwarder of comm/client.rs: QuicForwarder::run with   *)
(* QuicManager::open_bi, and the checker task spawned for each query.       *)
(***************************************************************************)
QuicTasks == 1..MaxQuicTasks

\* what Packet::parse_packet makes of the bytes read from the stream
Parsed == {"ok", "ServFail", "FormatError"}

InitQuic ==
    /\ qf_run = "running"
    /\ qf_n = 0
    /\ qf_q = [t \in QuicTasks |-> "none"]
    /\ qf_at = [t \in QuicTasks |-> 0]
    /\ qf_open = [t \in QuicTasks |-> "none"]
    /\ qf_pc = [t \in QuicTasks |-> "none"]
    /\ qf_sink = [t \in QuicTasks |-> <<>>]

\* client.rs:150-159: open_bi, given whether the first open, the reconnect
\* and the second open succeed; "failed" is the panic of one of the unwraps
open_bi(first, reconnect, second) ==
    IF first THEN "first"
    ELSE IF reconnect /\ second THEN "retried"
    ELSE "failed"

\* client.rs:46-59 and 103-105: the forwarder takes a task, opens a stream
\* and writes the query; the checker is spawned when the write succeeded
QuicTake(q, first, reconnect, second, written) ==
    /\ qf_run = "running"
    /\ qf_n < MaxQuicTasks
    /\ qf_n' = qf_n + 1
    /\ qf_q' = [qf_q EXCEPT ![qf_n + 1] = q]
    /\ qf_at' = [qf_at EXCEPT ![qf_n + 1] = now]
    /\ qf_open' = [qf_open EXCEPT ![qf_n + 1] = open_bi(first, reconnect, second)]
    /\ IF open_bi(first, reconnect, second) = "failed"
       THEN \* the task panics, ans_to is dropped with it
            /\ qf_run' = "panicked"
            /\ qf_pc' = [qf_pc EXCEPT ![qf_n + 1] = "closed"]
       ELSE IF written
       THEN /\ qf_pc' = [qf_pc EXCEPT ![qf_n + 1] = "reading"]
            /\ UNCHANGED qf_run
       ELSE \* client.rs:56-59: continue, ans_to is dropped
            /\ qf_pc' = [qf_pc EXCEPT ![qf_n + 1] = "closed"]
            /\ UNCHANGED qf_run
    /\ UNCHANGED <<now, qf_sink>>
    /\ UNCHANGED not_quic

\* client.rs:61-101: read_to_end returns the upstream's bytes; the checker
\* parses them, sends what it got and ends
QuicRead(t, parsed) ==
    /\ qf_pc[t] = "reading"
    /\ qf_sink' = [qf_sink EXCEPT ![t] =
                     IF parsed = "ok" THEN Chain(UpstreamPacket(qf_q[t]))
                     ELSE IF parsed = "ServFail" THEN <<>>
                     ELSE <<Err(parsed)>>]
    /\ qf_pc' = [qf_pc EXCEPT ![t] = "closed"]
    /\ UNCHANGED <<now, qf_run, qf_n, qf_q, qf_at, qf_open>>
    /\ UNCHANGED not_quic

\* client.rs:63-66: read_to_end fails and expect() panics in the checker
QuicReadFailed(t) ==
    /\ qf_pc[t] = "reading"
    /\ qf_pc' = [qf_pc EXCEPT ![t] = "panicked"]
    /\ UNCHANGED <<now, qf_run, qf_n, qf_q, qf_at, qf_open, qf_sink>>
    /\ UNCHANGED not_quic

NextQuic ==
    \/ \E q \in Questions, first, reconnect, second, written \in BOOLEAN :
          QuicTake(q, first, reconnect, second, written)
    \/ \E t \in QuicTasks, parsed \in Parsed : QuicRead(t, parsed)
    \/ \E t \in QuicTasks : QuicReadFailed(t)
    \/ \E t \in Instants : Tick(t)

(***************************************************************************)
(* The UDP server of comm/mod.rs: Manager::run_udp, with the task it spawns *)
(* for each datagram (Manager::transaction, Manager::udp_fail).             *)
(***************************************************************************)
Udps == 1..MaxUdp

NoUdp == [len |-> 0, kind |-> "none", id |-> NoId]

\* the datagrams a client can send: too short to hold a header, a packet
\* parse_packet rejects (its id readable or not), a response, a query with
\* its question, a query whose header counts no question
UdpDgrams ==
    [len : {MinDgram - 1}, kind : {"short"}, id : {NoId}]
    \cup [len : {MinDgram, 40}, kind : {"format"}, id : Ids \cup {NoId}]
    \cup [len : {MinDgram}, kind : {"nonquery", "query_noq"}, id : Ids]
    \cup [len : {40}, kind : {"nonquery", "query"}, id : Ids]

InitUdp ==
    /\ u_n = 0
    /\ u_in = [d \in Udps |-> NoUdp]
    /\ u_pc = [d \in Udps |-> "none"]
    /\ u_out = [d \in Udps |-> <<>>]
    /\ u_failed = [d \in Udps |-> FALSE]
    /\ u_tasks = [d \in Udps |-> 0]
    /\ u_emitted = [d \in Udps |-> <<>>]

\* comm/mod.rs:206-212: udp_fail; send_to(..).unwrap() panics on an error
udp_fail(id, error) == new_failure(IF id = NoId THEN 0 ELSE id, error)

\* the spawned task sends packet p back for datagram d and ends
UdpSend(d, p, ok) ==
    /\ u_out' = [u_out EXCEPT ![d] = IF ok THEN Append(@, p) ELSE @]
    /\ u_failed' = [u_failed EXCEPT ![d] = ~ok]
    /\ u_pc' = [u_pc EXCEPT ![d] = IF ok THEN "done" ELSE "panicked"]

\* comm/mod.rs:219-255 with transaction (170-190): a datagram is received,
\* validated and parsed; a query has its question sent to the engine
UdpRecv(g, ok) ==
    /\ u_n < MaxUdp
    /\ u_n' = u_n + 1
    /\ u_in' = [u_in EXCEPT ![u_n + 1] = g]
    /\ IF g.len < MinDgram
       THEN /\ u_pc' = [u_pc EXCEPT ![u_n + 1] = "dropped"]
            /\ UNCHANGED <<u_out, u_failed, u_tasks>>
       ELSE CASE g.kind = "format" ->
                   /\ UdpSend(u_n + 1, udp_fail(g.id, "FormatError"), ok)
                   /\ UNCHANGED u_tasks
              [] g.kind = "nonquery" ->
                   /\ UdpSend(u_n + 1, udp_fail(g.id, "ServFail"), ok)
                   /\ UNCHANGED u_tasks
              [] g.kind = "query_noq" ->
                   \* no question: nothing to wait for, Ok(vec![])
                   /\ UdpSend(u_n + 1, new_plain_answer(g.id, <<>>, <<>>, <<>>), ok)
                   /\ UNCHANGED u_tasks
              [] g.kind = "query" ->
                   /\ u_tasks' = [u_tasks EXCEPT ![u_n + 1] = 1]
                   /\ u_pc' = [u_pc EXCEPT ![u_n + 1] = "waiting"]
                   /\ UNCHANGED <<u_out, u_failed>>
    /\ UNCHANGED u_emitted
    /\ UNCHANGED not_udp

\* comm/mod.rs:192-193: one rx.recv() for each question
received(emitted) == <<Head(emitted)>>

\* comm/mod.rs:192-203 then 259-274: the engine has sent emitted on the
\* answer channel; the transaction receives from the channel once and
\* returns, and the response is built from what it returns
UdpAnswer(d, emitted, ok) ==
    /\ u_pc[d] = "waiting"
    /\ u_emitted' = [u_emitted EXCEPT ![d] = emitted]
    /\ LET got == received(emitted)
           of(tag) == [i \in 1..Len(SelectSeq(got, LAMBDA a : a.tag = tag)) |->
                         SelectSeq(got, LAMBDA a : a.tag = tag)[i].rr]
       IN IF Head(got).tag = "Error"
          THEN UdpSend(d, udp_fail(u_in[d].id, Head(got).rr), ok)
          ELSE UdpSend(d, new_plain_answer(u_in[d].id, of("Answer"), of("NameServer"),
                                           of("Additional")), ok)
    /\ UNCHANGED <<u_n, u_in, u_tasks>>
    /\ UNCHANGED not_udp

\* comm/mod.rs:193: the engine closes the answer channel having sent nothing;
\* recv() yields None and unwrap() panics
UdpClosed(d) ==
    /\ u_pc[d] = "waiting"
    /\ u_pc' = [u_pc EXCEPT ![d] = "panicked"]
    /\ UNCHANGED <<u_n, u_in, u_out, u_failed, u_tasks, u_emitted>>
    /\ UNCHANGED not_udp

NextUdp ==
    \/ \E g \in UdpDgrams, ok \in BOOLEAN : UdpRecv(g, ok)
    \/ \E d \in Udps, tag \in Tags, q \in Questions, ok \in BOOLEAN,
          more \in {<<>>} \cup {<<Rec(t, "q1")>> : t \in Tags} :
          UdpAnswer(d, <<Rec(tag, q)>> \o more, ok)
    \/ \E d \in Udps, e \in ErrKinds, ok \in BOOLEAN : UdpAnswer(d, <<Err(e)>>, ok)
    \/ \E d \in Udps : UdpClosed(d)

(***************************************************************************)
(* The wire codec (protocol/).  Packets are sequences of bytes; the byte   *)
(* at offset pos of the source is element pos + 1 of the sequence.  Every  *)
(* parser returns a record whose kind is "ok", "err" or "panic": "panic"   *)
(* is a read past the end of a Bytes buffer (get_u8, get_u16, advance and  *)
(* slice indexing abort the task).                                         *)
(***************************************************************************)
\* a & b, a | b and a ^ b on unsigned integers
RECURSIVE bitand(_, _)
bitand(a, b) ==
    IF a = 0 \/ b = 0 THEN 0
    ELSE (a % 2) * (b % 2) + 2 * bitand(a \div 2, b \div 2)

RECURSIVE bitor(_, _)
bitor(a, b) ==
    IF a = 0 THEN b
    ELSE IF b = 0 THEN a
    ELSE (IF a % 2 = 1 \/ b % 2 = 1 THEN 1 ELSE 0) + 2 * bitor(a \div 2, b \div 2)

RECURSIVE bitxor(_, _)
bitxor(a, b) ==
    IF a = 0 THEN b
    ELSE IF b = 0 THEN a
    ELSE ((a + b) % 2) + 2 * bitxor(a \div 2, b \div 2)

\* a >> k, and a << k on a u8
shr(a, k) == a \div (2 ^ k)
shl_u8(a, k) == (a * (2 ^ k)) % 256

\* Buf::get_u8 / get_u16 at an offset, BufMut::put_u16 (big endian)
get_u8(packet, pos) == packet[pos + 1]
get_u16(packet, pos) == packet[pos + 1] * 256 + packet[pos + 2]
put_u16(n) == <<n \div 256, n % 256>>

\* a u32 is kept as its two u16 halves
get_u32(packet, pos) == [hi |-> get_u16(packet, pos), lo |-> get_u16(packet, pos + 2)]
put_u32(v) == put_u16(v.hi) \o put_u16(v.lo)

\* packet[begin..end) of the source
slice(packet, begin, end) == SubSeq(packet, begin + 1, end)

\* results of the parsers
Ok(v, end) == [kind |-> "ok", val |-> v, end |-> end]
PErr(e) == [kind |-> "err", error |-> e]
TErr(id, e) == [kind |-> "err", id |-> id, error |-> e]
Panic == [kind |-> "panic"]

(***************************************************************************)
(* The header (protocol/header.rs).                                        *)
(***************************************************************************)
QR_MASK == 128
OP_MASK == 120
AA_MASK == 4
TC_MASK == 2
RD_MASK == 1
RA_MASK == QR_MASK
Z_MASK == 112
RC_MASK == 15

\* pub_map_enum! Op: From<u8> for Op and From<Op> for u8
Op_from(value) ==
    CASE value = 0 -> [key |-> "Query", value |-> 0]
      [] value = 1 -> [key |-> "IQuery", value |-> 0]
      [] value = 2 -> [key |-> "Status", value |-> 0]
      [] OTHER -> [key |-> "Reserved", value |-> value]

Op_into(op) ==
    CASE op.key = "Query" -> 0
      [] op.key = "IQuery" -> 1
      [] op.key = "Status" -> 2
      [] OTHER -> op.value

\* pub_map_enum! Rcode
Rcode_from(value) ==
    CASE value = 0 -> [key |-> "NoError", value |-> 0]
      [] value = 1 -> [key |-> "FormatError", value |-> 0]
      [] value = 2 -> [key |-> "ServFail", value |-> 0]
      [] value = 3 -> [key |-> "NameError", value |-> 0]
      [] value = 4 -> [key |-> "NotImpl", value |-> 0]
      [] value = 5 -> [key |-> "Refused", value |-> 0]
      [] OTHER -> [key |-> "Reserved", value |-> value]

Rcode_into(rc) ==
    CASE rc.key = "NoError" -> 0
      [] rc.key = "FormatError" -> 1
      [] rc.key = "ServFail" -> 2
      [] rc.key = "NameError" -> 3
      [] rc.key = "NotImpl" -> 4
      [] rc.key = "Refused" -> 5
      [] OTHER -> rc.value

\* the reserved bits given up instead of read
z_dropped(b) == 0

\* header.rs:240: let z = (b & Z_MASK) >> 4
z_of(b) == shr(bitand(b, Z_MASK), 4)

\* the fields read from the flag bytes a and b and the four counts; the
\* same lines in Header::parse and Header::parse_stream
header_fields(id, a, b, qd, an, ns, ar) ==
    [id |-> id,
     is_query |-> bitand(a, QR_MASK) # QR_MASK,
     opcode |-> Op_from(shr(bitand(a, OP_MASK), 3)),
     is_auth |-> bitand(a, AA_MASK) = AA_MASK,
     is_trunc |-> bitand(a, TC_MASK) = TC_MASK,
     is_rec_des |-> bitand(a, RD_MASK) = RD_MASK,
     is_rec_avl |-> bitand(b, RA_MASK) = RA_MASK,
     z |-> z_of(b),
     response |-> Rcode_from(bitand(b, RC_MASK)),
     questions |-> qd,
     answers |-> an,
     authorities |-> ns,
     additional |-> ar]

\* Header::parse: the fields are read from the start of the buffer
Header_parse(packet, pos) ==
    IF Len(packet) - pos < 12 THEN TErr(NoId, "FormatError")
    ELSE IF get_u16(packet, 4) > 1 THEN TErr(get_u16(packet, 0), "ServFail")
    ELSE Ok(header_fields(get_u16(packet, 0), get_u8(packet, 2), get_u8(packet, 3),
                          get_u16(packet, 4), get_u16(packet, 6),
                          get_u16(packet, 8), get_u16(packet, 10)), 12)

\* Header::parse_stream: every read that finds the stream at its end gives
\* FormatError, with the id once the id has been read
Header_parse_stream(stream) ==
    IF Len(stream) < 2 THEN TErr(NoId, "FormatError")
    ELSE IF Len(stream) < 6 THEN TErr(get_u16(stream, 0), "FormatError")
    ELSE IF get_u16(stream, 4) > 1 THEN TErr(get_u16(stream, 0), "FormatError")
    ELSE IF Len(stream) < 12 THEN TErr(get_u16(stream, 0), "FormatError")
    ELSE Ok(header_fields(get_u16(stream, 0), get_u8(stream, 2), get_u8(stream, 3),
                          get_u16(stream, 4), get_u16(stream, 6),
                          get_u16(stream, 8), get_u16(stream, 10)), 12)

\* Header::try_into_bytes
Header_try_into_bytes(h) ==
    put_u16(h.id)
    \o <<bitor(bitor(bitor(bitor(shl_u8(IF h.is_query THEN 0 ELSE 1, 7),
                                 shl_u8(Op_into(h.opcode), 3)),
                           shl_u8(IF h.is_auth THEN 1 ELSE 0, 2)),
                     shl_u8(IF h.is_trunc THEN 1 ELSE 0, 1)),
               IF h.is_rec_des THEN 1 ELSE 0)>>
    \o <<bitor(bitor(shl_u8(IF h.is_rec_avl THEN 1 ELSE 0, 7), shl_u8(h.z, 4)),
               Rcode_into(h.response))>>
    \o put_u16(h.questions) \o put_u16(h.answers)
    \o put_u16(h.authorities) \o put_u16(h.additional)

\* Header::new_query, Header::new_answer, Header::new_failure
Header_new_query(id) ==
    [id |-> id, is_query |-> TRUE, opcode |-> Op_from(0), is_auth |-> FALSE,
     is_trunc |-> FALSE, is_rec_des |-> TRUE, is_rec_avl |-> FALSE, z |-> 0,
     response |-> Rcode_from(0), questions |-> 1, answers |-> 0,
     authorities |-> 0, additional |-> 0]

Header_new_answer(id, an, ns, ar) ==
    [id |-> id, is_query |-> FALSE, opcode |-> Op_from(0), is_auth |-> FALSE,
     is_trunc |-> FALSE, is_rec_des |-> TRUE, is_rec_avl |-> TRUE, z |-> 0,
     response |-> Rcode_from(0), questions |-> 0, answers |-> an,
     authorities |-> ns, additional |-> ar]

\* the 12-byte headers the header functions are applied to, and prefixes
\* of them for the streaming parser
HeaderBytes ==
    LET IdBytes == {<<0, 0>>, <<18, 52>>, <<255, 255>>}
        FlagsA == {0, 1, 16, 40, 120, 129, 133, 255}
        FlagsB == {0, 5, 15, 32, 112, 128, 131, 255}
        QdBytes == {<<0, 0>>, <<0, 1>>, <<0, 2>>, <<1, 0>>}
        CountBytes == {<<0, 0>>, <<1, 2>>}
    IN  {id \o <<a, b>> \o qd \o an \o ns \o ar :
            id \in IdBytes, a \in FlagsA, b \in FlagsB, qd \in QdBytes,
            an \in CountBytes, ns \in CountBytes, ar \in CountBytes}
Cuts == {0, 1, 2, 5, 6, 11}

\* no codec function has been applied yet; a behaviour of the codec applies
\* one function to one input
InitCodec ==
    /\ c_fn = "none"
    /\ c_in = <<>>
    /\ c_out = [kind |-> "none"]

\* test_to_bytes of header.rs: a header is parsed and the result emitted
HeaderRoundTrip(bytes) ==
    /\ c_fn = "none"
    /\ c_fn' = "Header::try_into_bytes"
    /\ c_in' = bytes
    /\ c_out' = LET h == Header_parse(bytes, 0)
                IN  [parsed |-> h,
                     bytes |-> IF h.kind = "ok" THEN Header_try_into_bytes(h.val)
                               ELSE <<>>]
    /\ UNCHANGED not_codec

\* the same bytes given to Header::parse and to Header::parse_stream
HeaderParsers(bytes, cut) ==
    /\ c_fn = "none"
    /\ c_fn' = "Header::parse_stream"
    /\ c_in' = SubSeq(bytes, 1, cut)
    /\ c_out' = [buffer |-> Header_parse(SubSeq(bytes, 1, cut), 0),
                 stream |-> Header_parse_stream(SubSeq(bytes, 1, cut))]
    /\ UNCHANGED not_codec

(***************************************************************************)
(* Names (protocol/domain.rs).  A Name is the sequence of its labels, a    *)
(* label the sequence of its bytes.                                        *)
(***************************************************************************)
MAX_LABEL_LENGTH == 63
MAX_NAME_LENGTH == 253
PTR_MASK == 192
MAX_JUMPS == 5
\* b'.'
Dot == 46

\* n copies of the byte c
Rep(c, n) == [i \in 1..n |-> c]

\* s.split('.').filter(|p| !p.is_empty()): the pieces of s from index i on
RECURSIVE split(_, _)
split(s, i) ==
    IF i > Len(s) THEN <<>>
    ELSE LET dots == {j \in i..Len(s) : s[j] = Dot} \cup {Len(s) + 1}
             stop == CHOOSE j \in dots : \A k \in dots : j <= k
         IN  (IF stop = i THEN <<>> ELSE <<SubSeq(s, i, stop - 1)>>)
             \o split(s, stop + 1)

\* the sum of len + 1 over the labels
RECURSIVE total_len(_)
total_len(labels) ==
    IF labels = <<>> THEN 0 ELSE Len(Head(labels)) + 1 + total_len(Tail(labels))

\* Name::try_from
Name_try_from(s) ==
    LET labels == split(s, 1)
    IN  IF \E i \in 1..Len(labels) : Len(labels[i]) > MAX_LABEL_LENGTH
        THEN [kind |-> "err"]
        ELSE IF total_len(labels) > MAX_NAME_LENGTH THEN [kind |-> "err"]
        ELSE [kind |-> "ok", val |-> labels]

\* Name::len
Name_len(labels) == IF labels = <<>> THEN 1 ELSE total_len(labels)

\* Name::as_bytes_uncompressed
RECURSIVE Name_as_bytes_uncompressed(_)
Name_as_bytes_uncompressed(labels) ==
    IF labels = <<>> THEN <<0>>
    ELSE <<Len(Head(labels)) % 256>> \o Head(labels)
         \o Name_as_bytes_uncompressed(Tail(labels))

\* a UTF-8 continuation byte within [lo, hi]
cont(bs, i, lo, hi) == i <= Len(bs) /\ bs[i] >= lo /\ bs[i] <= hi

\* the UTF-8 validation of String::from_utf8, from index i on
RECURSIVE utf8_from(_, _)
utf8_from(bs, i) ==
    IF i > Len(bs) THEN TRUE
    ELSE LET b == bs[i]
         IN  CASE b < 128 -> utf8_from(bs, i + 1)
               [] b >= 194 /\ b <= 223 ->
                      cont(bs, i + 1, 128, 191) /\ utf8_from(bs, i + 2)
               [] b >= 224 /\ b <= 239 ->
                      /\ cont(bs, i + 1, IF b = 224 THEN 160 ELSE 128,
                              IF b = 237 THEN 159 ELSE 191)
                      /\ cont(bs, i + 2, 128, 191)
                      /\ utf8_from(bs, i + 3)
               [] b >= 240 /\ b <= 244 ->
                      /\ cont(bs, i + 1, IF b = 240 THEN 144 ELSE 128,
                              IF b = 244 THEN 143 ELSE 191)
                      /\ cont(bs, i + 2, 128, 191)
                      /\ cont(bs, i + 3, 128, 191)
                      /\ utf8_from(bs, i + 4)
               [] OTHER -> FALSE

\* String::from_utf8 succeeds: bytes below 128 alone are always valid
from_utf8(bs) == (\A i \in 1..Len(bs) : bs[i] < 128) \/ utf8_from(bs, 1)

\* the hop limit applied one hop too early
too_many_jumps_early(jumps) == jumps >= MAX_JUMPS

\* domain.rs:86: jumps > MAX_JUMPS
too_many_jumps(jumps) == jumps > MAX_JUMPS

\* the end offset moved at every pointer, not only at the first
domain_end_at_last(is_jumped, domain_end, pos) == pos + 2

\* domain.rs:94-96: if !is_jumped { domain_end = pos + 2 }
domain_end_at_pointer(is_jumped, domain_end, pos) ==
    IF is_jumped THEN domain_end ELSE pos + 2

\* the loop of Name::parse (domain.rs:85-144); jumps and steps, the
\* pointers followed and the iterations made, are returned beside the
\* result
RECURSIVE parse_loop(_, _, _, _, _, _, _, _)
parse_loop(packet, pos, jumps, is_jumped, domain_end, labels, size, steps) ==
    IF too_many_jumps(jumps) \/ pos >= Len(packet)
    THEN [kind |-> "err", error |-> "FormatError", jumps |-> jumps, steps |-> steps]
    ELSE LET byte == get_u8(packet, pos)
         IN
         IF byte = 0
         THEN IF size >= MAX_NAME_LENGTH
              THEN [kind |-> "err", error |-> "FormatError", jumps |-> jumps,
                    steps |-> steps]
              ELSE [kind |-> "ok", val |-> labels, end |-> domain_end,
                    jumps |-> jumps, steps |-> steps]
         ELSE IF bitand(byte, PTR_MASK) = PTR_MASK
         THEN IF pos + 1 >= Len(packet)
              THEN [kind |-> "err", error |-> "FormatError", jumps |-> jumps,
                    steps |-> steps]
              ELSE LET jmp_to == bitxor(byte, PTR_MASK) * 256 + get_u8(packet, pos + 1)
                   IN  IF jmp_to >= Len(packet)
                       THEN [kind |-> "err", error |-> "FormatError",
                             jumps |-> jumps, steps |-> steps]
                       ELSE parse_loop(packet, jmp_to, jumps + 1, TRUE,
                                       domain_end_at_pointer(is_jumped, domain_end,
                                                             pos),
                                       labels, size, steps + 1)
         ELSE LET end == pos + 1 + byte
              IN  IF end > Len(packet)
                  THEN [kind |-> "err", error |-> "FormatError", jumps |-> jumps,
                        steps |-> steps]
                  ELSE IF ~from_utf8(slice(packet, pos + 1, end))
                  THEN [kind |-> "err", error |-> "FormatError", jumps |-> jumps,
                        steps |-> steps]
                  ELSE parse_loop(packet, end, jumps, is_jumped,
                                  IF is_jumped THEN domain_end ELSE end + 1,
                                  Append(labels, slice(packet, pos + 1, end)),
                                  size + byte + 1, steps + 1)

\* Name::parse with the pointers followed and the iterations made
Name_parse_traced(packet, pos) ==
    IF pos >= Len(packet) THEN [kind |-> "panic", jumps |-> 0, steps |-> 0]
    ELSE IF get_u8(packet, pos) = 0
    THEN [kind |-> "ok", val |-> <<>>, end |-> pos + 1, jumps |-> 0, steps |-> 0]
    ELSE parse_loop(packet, pos, 0, FALSE, 0, <<>>, 0, 0)

\* Name::parse: Ok((name, end)), Err(FormatError), or the abort of
\* packet[pos] when pos is not inside the packet (domain.rs:81)
Name_parse(packet, pos) ==
    LET result(r) ==
            CASE r.kind = "ok" -> Ok(r.val, r.end)
              [] r.kind = "err" -> PErr(r.error)
              [] OTHER -> Panic
    IN  result(Name_parse_traced(packet, pos))

\* labels of 'a's of the given lengths, each followed by a dot
RECURSIVE Dotted(_)
Dotted(lens) ==
    IF lens = <<>> THEN <<>>
    ELSE Rep(97, Head(lens)) \o <<Dot>> \o Dotted(Tail(lens))

\* the textual names Name::try_from is applied to, with and without a
\* trailing dot
Texts ==
    LET LabelLens ==
            {<<>>, <<1>>, <<1, 2>>, <<7, 3>>, <<63>>, <<64>>, <<63, 63>>,
             <<63, 63, 63, 59>>, <<63, 63, 63, 60>>, <<63, 63, 63, 61>>,
             <<63, 63, 63, 62>>, <<61, 63, 63, 63>>, <<1, 1, 1, 1>>}
    IN  {Dotted(lens) : lens \in LabelLens}
        \cup {SubSeq(Dotted(lens), 1, Len(Dotted(lens)) - 1) :
                 lens \in LabelLens \ {<<>>}}
        \cup {<<Dot>>, <<Dot, Dot, 97, Dot, Dot, 98>>, <<195, 169, Dot, 97>>}

\* the packets given to Name::parse: every string of up to MaxNameBytes
\* bytes over a few length bytes, a pointer byte and a letter
MaxNameBytes == 4
NamePackets ==
    UNION {[1..n -> {0, 1, 2, 3, 64, 97, 192}] : n \in 1..MaxNameBytes}

\* the name "a" at offset 0 followed by k pointers, each to the one before
\* it (the first to offset 0): the name at offset 1 + 2k needs k hops
MaxChain == 7
RECURSIVE Chain_bytes(_)
Chain_bytes(k) ==
    IF k = 0 THEN <<1, 97, 0>>
    ELSE Chain_bytes(k - 1) \o <<PTR_MASK, IF k = 1 THEN 0 ELSE 2 * k - 1>>

\* a length byte followed by that many 'a's and the closing zero, alone
\* and after a pointer; a label that is not UTF-8; a label followed by a
\* pointer to a name and by a pointer to a pointer
LongLabels ==
    {<<n>> \o Rep(97, n) \o <<0>> : n \in {63, 64, 127, 128, 191}}
    \cup {<<n>> \o Rep(97, n) : n \in {63, 64}}
    \cup {<<2, 255, 97, 0>>, <<2, 195, 169, 0>>, <<1, 128, 0>>}
    \cup {<<1, 97, 0, 1, 98, PTR_MASK, 0>>, <<0, PTR_MASK, 0, 1, 98, PTR_MASK, 1>>}

\* a name is built from text, emitted and parsed back
NameRoundTrip(s) ==
    /\ c_fn = "none"
    /\ c_fn' = "Name::as_bytes_uncompressed"
    /\ c_in' = s
    /\ c_out' = LET n == Name_try_from(s)
                IN  IF n.kind = "ok"
                    THEN [name |-> n,
                          bytes |-> Name_as_bytes_uncompressed(n.val),
                          parsed |-> Name_parse(Name_as_bytes_uncompressed(n.val), 0)]
                    ELSE [name |-> n, bytes |-> <<>>, parsed |-> [kind |-> "none"]]
    /\ UNCHANGED not_codec

\* domain.rs:192-199: impl PartialEq for Name; zip ends with the shorter of
\* the two label vectors
Name_eq(self, other) ==
    \A i \in 1..(IF Len(self) < Len(other) THEN Len(self) ELSE Len(other)) :
       self[i] = other[i]

\* three names are compared with ==, each with the others and with itself
NameEq(x, y, z) ==
    /\ c_fn = "none"
    /\ c_fn' = "Name::eq"
    /\ c_in' = [x |-> x, y |-> y, z |-> z]
    /\ c_out' = [xx |-> Name_eq(x, x), xy |-> Name_eq(x, y), yx |-> Name_eq(y, x),
                 yz |-> Name_eq(y, z), xz |-> Name_eq(x, z)]
    /\ UNCHANGED not_codec

\* Name::parse applied to a packet at an offset
NameParse(packet, pos, hops) ==
    /\ c_fn = "none"
    /\ c_fn' = "Name::parse"
    /\ c_in' = [packet |-> packet, pos |-> pos, hops |-> hops]
    /\ c_out' = Name_parse_traced(packet, pos)
    /\ UNCHANGED not_codec

(***************************************************************************)
(* Record data (protocol/rr/rdata/).  A value is a record whose ty names   *)
(* the variant of RRData.  checked says whether the build aborts on        *)
(* integer overflow (debug) or wraps (release).                            *)
(***************************************************************************)
\* pub_map_enum! RRType
RRType_from(value) ==
    CASE value = 1 -> [key |-> "A", value |-> 0]
      [] value = 2 -> [key |-> "Ns", value |-> 0]
      [] value = 5 -> [key |-> "Cname", value |-> 0]
      [] value = 6 -> [key |-> "Soa", value |-> 0]
      [] value = 7 -> [key |-> "Mb", value |-> 0]
      [] value = 8 -> [key |-> "Mg", value |-> 0]
      [] value = 9 -> [key |-> "Mr", value |-> 0]
      [] value = 10 -> [key |-> "Null", value |-> 0]
      [] value = 11 -> [key |-> "Wks", value |-> 0]
      [] value = 12 -> [key |-> "Ptr", value |-> 0]
      [] value = 13 -> [key |-> "HInfo", value |-> 0]
      [] value = 14 -> [key |-> "MInfo", value |-> 0]
      [] value = 15 -> [key |-> "Mx", value |-> 0]
      [] value = 16 -> [key |-> "Txt", value |-> 0]
      [] value = 28 -> [key |-> "Aaaa", value |-> 0]
      [] OTHER -> [key |-> "UNKNOWN", value |-> value]

RRType_into(ty) ==
    CASE ty.key = "A" -> 1
      [] ty.key = "Ns" -> 2
      [] ty.key = "Cname" -> 5
      [] ty.key = "Soa" -> 6
      [] ty.key = "Mb" -> 7
      [] ty.key = "Mg" -> 8
      [] ty.key = "Mr" -> 9
      [] ty.key = "Null" -> 10
      [] ty.key = "Wks" -> 11
      [] ty.key = "Ptr" -> 12
      [] ty.key = "HInfo" -> 13
      [] ty.key = "MInfo" -> 14
      [] ty.key = "Mx" -> 15
      [] ty.key = "Txt" -> 16
      [] ty.key = "Aaaa" -> 28
      [] OTHER -> ty.value

\* pub_map_enum! RRClass
RRClass_from(value) ==
    CASE value = 0 -> [key |-> "Reserved", value |-> 0]
      [] value = 1 -> [key |-> "Internet", value |-> 0]
      [] value = 3 -> [key |-> "Chaos", value |-> 0]
      [] value = 4 -> [key |-> "Hesiod", value |-> 0]
      [] OTHER -> [key |-> "Unknown", value |-> value]

RRClass_into(class) ==
    CASE class.key = "Reserved" -> 0
      [] class.key = "Internet" -> 1
      [] class.key = "Chaos" -> 3
      [] class.key = "Hesiod" -> 4
      [] OTHER -> class.value

\* a.rs
A_parse(packet, pos) ==
    IF pos + 6 > Len(packet) THEN PErr("FormatError")
    ELSE IF get_u16(packet, pos) # 4 THEN PErr("FormatError")
    ELSE Ok([ty |-> "A", addr |-> get_u32(packet, pos + 2)], pos + 6)

A_try_into_bytes(v) == put_u16(4) \o put_u32(v.addr)

\* aaaa.rs; a u128 is kept as its eight u16 groups
Aaaa_parse(packet, pos) ==
    IF pos + 18 > Len(packet) THEN PErr("FormatError")
    ELSE IF get_u16(packet, pos) # 16 THEN PErr("FormatError")
    ELSE Ok([ty |-> "Aaaa", addr |-> [i \in 1..8 |-> get_u16(packet, pos + 2 * i)]],
            pos + 18)

Aaaa_try_into_bytes(v) ==
    put_u16(16)
    \o put_u16(v.addr[1]) \o put_u16(v.addr[2]) \o put_u16(v.addr[3])
    \o put_u16(v.addr[4]) \o put_u16(v.addr[5]) \o put_u16(v.addr[6])
    \o put_u16(v.addr[7]) \o put_u16(v.addr[8])

\* Cname::parse, Mb::parse, Mr::parse, Ptr::parse: the four bodies are
\* the same; the cursor is advanced to pos before RDLENGTH is read
\* (cname.rs:33-35)
name_rdata_parse(ty, packet, pos) ==
    LET end == get_u16(packet, pos) + pos + 2
        after_name(n) ==
            IF n.kind # "ok" THEN n
            ELSE IF end = n.end THEN Ok([ty |-> ty, domain |-> n.val], end)
            ELSE PErr("FormatError")
    IN  IF pos + 4 > Len(packet) THEN PErr("FormatError")
        ELSE IF pos + 1 >= Len(packet) THEN PErr("FormatError")
        ELSE after_name(Name_parse(packet, pos + 2))

Cname_parse(packet, pos) == name_rdata_parse("Cname", packet, pos)
Mb_parse(packet, pos) == name_rdata_parse("Mb", packet, pos)
Mr_parse(packet, pos) == name_rdata_parse("Mr", packet, pos)
Ptr_parse(packet, pos) == name_rdata_parse("Ptr", packet, pos)

\* Ns::parse: get_u16 is called on a clone of the packet that was not
\* advanced to pos (ns.rs:27-28)
Ns_parse(packet, pos) ==
    LET end == pos + 2 + get_u16(packet, 0)
        after_name(n) ==
            IF n.kind # "ok" THEN n
            ELSE IF n.end = end THEN Ok([ty |-> "Ns", domain |-> n.val], end)
            ELSE PErr("FormatError")
    IN  IF pos + 4 > Len(packet) THEN PErr("FormatError")
        ELSE after_name(Name_parse(packet, pos + 2))

\* try_into_bytes of Cname, Mb, Mr, Ptr and Ns
name_rdata_try_into_bytes(v) ==
    put_u16(Len(Name_as_bytes_uncompressed(v.domain)))
    \o Name_as_bytes_uncompressed(v.domain)

\* mx.rs
Mx_parse(packet, pos) ==
    LET end == get_u16(packet, pos) + pos + 2
        after_name(n) ==
            IF n.kind # "ok" THEN n
            ELSE IF n.end = end
            THEN Ok([ty |-> "Mx", preference |-> get_u16(packet, pos + 2),
                     domain |-> n.val], end)
            ELSE PErr("FormatError")
    IN  IF pos + 6 > Len(packet) THEN PErr("FormatError")
        ELSE after_name(Name_parse(packet, pos + 4))

Mx_try_into_bytes(v) ==
    put_u16(Len(Name_as_bytes_uncompressed(v.domain)) + 2)
    \o put_u16(v.preference) \o Name_as_bytes_uncompressed(v.domain)

\* soa.rs
SOA_parse(packet, pos) ==
    LET after_rname(m, r) ==
            IF r.kind # "ok" THEN r
            ELSE IF r.end + 20 > Len(packet) THEN PErr("FormatError")
            ELSE IF r.end + 20 - (pos + 2) # get_u16(packet, pos)
            THEN PErr("FormatError")
            ELSE Ok([ty |-> "Soa", mname |-> m.val, rname |-> r.val,
                     serial |-> get_u32(packet, r.end),
                     refresh |-> get_u32(packet, r.end + 4),
                     retry |-> get_u32(packet, r.end + 8),
                     expires |-> get_u32(packet, r.end + 12),
                     minimum |-> get_u32(packet, r.end + 16)],
                    r.end + 20)
        after_mname(m) ==
            IF m.kind # "ok" THEN m
            ELSE after_rname(m, Name_parse(packet, m.end))
    IN  IF pos + 26 > Len(packet) THEN PErr("FormatError")
        ELSE after_mname(Name_parse(packet, pos + 2))

SOA_to_bytes(v) ==
    put_u16(Len(Name_as_bytes_uncompressed(v.mname))
            + Len(Name_as_bytes_uncompressed(v.rname)) + 20)
    \o Name_as_bytes_uncompressed(v.mname) \o Name_as_bytes_uncompressed(v.rname)
    \o put_u32(v.serial) \o put_u32(v.refresh) \o put_u32(v.retry)
    \o put_u32(v.expires) \o put_u32(v.minimum)

\* hinfo.rs: o_len is read at the byte after c_len, the cursor is not moved
\* past the cpu string (hinfo.rs:34-35); the sums are u8 sums
HInfo_parse(packet, pos, checked) ==
    IF pos + 4 > Len(packet) THEN PErr("FormatError")
    ELSE LET rdlen == get_u16(packet, pos)
             end == pos + 2 + rdlen
             c_len == get_u8(packet, pos + 2)
             o_len == get_u8(packet, pos + 3)
         IN  IF end > Len(packet) THEN PErr("FormatError")
             ELSE IF c_len + 1 > 255 /\ checked THEN Panic
             ELSE IF (c_len + 1) % 256 >= rdlen THEN PErr("FormatError")
             ELSE IF pos + 3 + c_len > Len(packet) THEN Panic
             ELSE IF c_len + 1 + o_len + 1 > 255 /\ checked THEN Panic
             ELSE IF (c_len + 1 + o_len + 1) % 256 > rdlen THEN PErr("FormatError")
             ELSE IF pos + 4 + o_len > Len(packet) THEN Panic
             ELSE Ok([ty |-> "HInfo",
                      cpu |-> slice(packet, pos + 3, pos + 3 + c_len),
                      os |-> slice(packet, pos + 4, pos + 4 + o_len)], end)

HInfo_try_into_bytes(v) ==
    put_u16(Len(v.cpu) + Len(v.os) + 2)
    \o <<Len(v.cpu) % 256>> \o v.cpu \o <<Len(v.os) % 256>> \o v.os

\* wks.rs: rdata_length -= 5 underflows below 5, and the bitmap slice is
\* taken without a look at the length of the packet
Wks_parse(packet, pos) ==
    IF pos + 7 > Len(packet) THEN PErr("FormatError")
    ELSE IF pos + 2 >= Len(packet) THEN PErr("FormatError")
    ELSE LET rdata_length == get_u16(packet, pos)
             end == rdata_length + pos + 2
         IN  IF rdata_length < 5 THEN Panic
             ELSE IF end > Len(packet) THEN Panic
             ELSE Ok([ty |-> "Wks", addr |-> get_u32(packet, pos + 2),
                      proto |-> get_u8(packet, pos + 6),
                      bmp |-> slice(packet, pos + 7, end)], end)

\* Wks::try_into_bytes puts no RDLENGTH (wks.rs:40-46)
Wks_try_into_bytes(v) == put_u32(v.addr) \o <<v.proto>> \o v.bmp

\* nl.rs
Null_parse(packet, pos) ==
    IF pos + 2 >= Len(packet) THEN PErr("FormatError")
    ELSE LET end == get_u16(packet, pos) + pos + 2
         IN  IF end > Len(packet) THEN Panic
             ELSE Ok([ty |-> "Null", data |-> slice(packet, pos + 2, end)], end)

Null_try_into_bytes(v) == put_u16(Len(v.data) % 65536) \o v.data

\* the loop of Txt::parse: cur is the cursor, read the bytes counted
RECURSIVE txt_loop(_, _, _, _, _)
txt_loop(packet, cur, read, len, v) ==
    IF read >= len THEN [kind |-> "ok", val |-> v]
    ELSE IF cur >= Len(packet) THEN Panic
    ELSE LET m_len == get_u8(packet, cur)
         IN  IF cur + 1 + m_len > Len(packet) THEN Panic
             ELSE txt_loop(packet, cur + 1 + m_len, read + m_len + 1, len,
                           Append(v, slice(packet, cur + 1, cur + 1 + m_len)))

\* txt.rs
Txt_parse(packet, pos) ==
    IF pos + 2 > Len(packet) THEN PErr("FormatError")
    ELSE LET len == get_u16(packet, pos)
         IN  IF pos + 2 + len > Len(packet) THEN PErr("FormatError")
             ELSE LET t == txt_loop(packet, pos + 2, 0, len, <<>>)
                  IN  IF t.kind # "ok" THEN t
                      ELSE Ok([ty |-> "Txt", text |-> t.val], pos + 2 + len)

RECURSIVE txt_bytes(_)
txt_bytes(text) ==
    IF text = <<>> THEN <<>>
    ELSE <<Len(Head(text)) % 256>> \o Head(text) \o txt_bytes(Tail(text))

Txt_try_into_bytes(v) == put_u16(Len(txt_bytes(v.text))) \o txt_bytes(v.text)

\* minfo.rs
MInfo_parse(packet, pos) ==
    LET after_e_mail_box(r, e) ==
            IF e.kind # "ok" THEN e
            ELSE Ok([ty |-> "MInfo", r_mail_box |-> r.val, e_mail_box |-> e.val],
                    e.end)
        after_r_mail_box(r) ==
            IF r.kind # "ok" THEN r
            ELSE after_e_mail_box(r, Name_parse(packet, r.end))
    IN  IF pos + 2 > Len(packet) THEN PErr("FormatError")
        ELSE after_r_mail_box(Name_parse(packet, pos + 2))

MInfo_try_into_bytes(v) ==
    put_u16(Len(Name_as_bytes_uncompressed(v.r_mail_box))
            + Len(Name_as_bytes_uncompressed(v.e_mail_box)))
    \o Name_as_bytes_uncompressed(v.r_mail_box)
    \o Name_as_bytes_uncompressed(v.e_mail_box)

\* Unknown::parse_typeless followed by set_type(x) (rr/mod.rs:165-169):
\* the length is read at the start of the packet, the data after it
Unknown_parse_typeless(x, packet, pos) ==
    IF Len(packet) < 2 THEN Panic
    ELSE LET length == get_u16(packet, 0)
         IN  IF 2 + length > Len(packet) THEN Panic
             ELSE Ok([ty |-> "UNKNOWN", rtype |-> x, length |-> length,
                      data |-> slice(packet, 2, 2 + length)], pos + 2 + length)

Unknown_try_into_bytes(v) == put_u16(v.length % 65536) \o v.data

\* rdata_parse (rr/mod.rs:174-180); Mg::parse is not among the sources
rdata_parse(ty, packet, offset, checked) ==
    CASE ty.key = "A" -> A_parse(packet, offset)
      [] ty.key = "Aaaa" -> Aaaa_parse(packet, offset)
      [] ty.key = "Ns" -> Ns_parse(packet, offset)
      [] ty.key = "Cname" -> Cname_parse(packet, offset)
      [] ty.key = "Mb" -> Mb_parse(packet, offset)
      [] ty.key = "Mr" -> Mr_parse(packet, offset)
      [] ty.key = "MInfo" -> MInfo_parse(packet, offset)
      [] ty.key = "HInfo" -> HInfo_parse(packet, offset, checked)
      [] ty.key = "Null" -> Null_parse(packet, offset)
      [] ty.key = "Ptr" -> Ptr_parse(packet, offset)
      [] ty.key = "Wks" -> Wks_parse(packet, offset)
      [] ty.key = "Soa" -> SOA_parse(packet, offset)
      [] ty.key = "Txt" -> Txt_parse(packet, offset)
      [] ty.key = "Mx" -> Mx_parse(packet, offset)
      [] OTHER -> Unknown_parse_typeless(ty.value, packet, offset)

\* RRData::get_type
RRData_get_type(v) ==
    IF v.ty = "UNKNOWN" THEN [key |-> "UNKNOWN", value |-> v.rtype]
    ELSE [key |-> v.ty, value |-> 0]

\* RRData::try_into_bytes
RRData_try_into_bytes(v) ==
    CASE v.ty = "A" -> A_try_into_bytes(v)
      [] v.ty = "Aaaa" -> Aaaa_try_into_bytes(v)
      [] v.ty \in {"Cname", "Ns", "Mb", "Mr", "Ptr"} -> name_rdata_try_into_bytes(v)
      [] v.ty = "Mx" -> Mx_try_into_bytes(v)
      [] v.ty = "Soa" -> SOA_to_bytes(v)
      [] v.ty = "HInfo" -> HInfo_try_into_bytes(v)
      [] v.ty = "Wks" -> Wks_try_into_bytes(v)
      [] v.ty = "Null" -> Null_try_into_bytes(v)
      [] v.ty = "Txt" -> Txt_try_into_bytes(v)
      [] v.ty = "MInfo" -> MInfo_try_into_bytes(v)
      [] OTHER -> Unknown_try_into_bytes(v)

\* the variants whose payload is one name
NameTypes == {"Cname", "Ns", "Mb", "Mr", "Ptr"}

\* the record data the round trip is applied to
RdataValues ==
    LET Names == {<<>>, <<<<97>>>>, <<<<97, 98>>, <<99>>>>}
        U32s == {[hi |-> 0, lo |-> 0], [hi |-> 4883, lo |-> 20736],
                 [hi |-> 65535, lo |-> 65535]}
        Strs == {<<>>, <<65>>, <<65, 66>>}
    IN  {[ty |-> "A", addr |-> a] : a \in U32s}
        \cup {[ty |-> "Aaaa", addr |-> [i \in 1..8 |-> g]] : g \in {0, 1, 65535}}
        \cup {[ty |-> t, domain |-> n] : t \in NameTypes, n \in Names}
        \cup {[ty |-> "Mx", preference |-> p, domain |-> n] : p \in {0, 10}, n \in Names}
        \cup {[ty |-> "Soa", mname |-> m, rname |-> n, serial |-> s, refresh |-> s,
               retry |-> s, expires |-> s, minimum |-> s] :
                 m \in Names, n \in Names, s \in U32s}
        \cup {[ty |-> "HInfo", cpu |-> c, os |-> o] : c \in Strs, o \in Strs}
        \cup {[ty |-> "Wks", addr |-> a, proto |-> 6, bmp |-> b] : a \in U32s, b \in Strs}
        \cup {[ty |-> "Null", data |-> d] : d \in Strs}
        \cup {[ty |-> "Txt", text |-> t] : t \in {<<>>, <<<<65>>>>, <<<<65, 66>>, <<>>, <<67>>>>}}
        \cup {[ty |-> "MInfo", r_mail_box |-> m, e_mail_box |-> n] : m \in Names, n \in Names}
        \cup {[ty |-> "UNKNOWN", rtype |-> 99, length |-> Len(d), data |-> d] : d \in Strs}

\* the packets record data is parsed from: bytes before pos, RDLENGTH, the
\* bytes of a name, bytes after it
RdataPackets ==
    LET Pads == {<<>>, <<0, 0>>, <<0, 3>>, <<1, 97, 0>>}
        NameBytes == {<<0>>, <<1, 97, 0>>, <<PTR_MASK, 0>>, <<1, 97>>,
                      <<2, 97, 98, 1, 99, 0>>}
        Tails == {<<>>, <<0>>, <<7, 7>>}
    IN  {[packet |-> pad \o put_u16(Len(n) + d) \o n \o tail, pos |-> Len(pad)] :
            pad \in Pads, n \in NameBytes, d \in {0, 1}, tail \in Tails}
        \cup {[packet |-> pad \o bytes, pos |-> Len(pad)] :
                pad \in Pads,
                bytes \in {<<0, 4, 255, 0, 0, 0>>, <<0, 4, 1, 65, 1, 66>>,
                           <<0, 4, 127, 127, 0, 0>>, <<0, 3, 0, 0, 0, 0, 6>>,
                           <<0, 9, 0, 0, 0, 0, 6>>, <<0, 6, 0, 0, 0, 0, 6, 1>>,
                           <<0, 2, 1, 65>>, <<0, 1, 5, 65>>, <<0, 9, 65>>,
                           <<0, 4, 1, 2, 3, 4>>, <<>>, <<0>>}}

\* record data is emitted and the bytes are parsed back at offset 0
RdataRoundTrip(v, checked) ==
    /\ c_fn = "none"
    /\ c_fn' = "RRData::try_into_bytes"
    /\ c_in' = v
    /\ c_out' = [bytes |-> RRData_try_into_bytes(v),
                 parsed |-> rdata_parse(RRData_get_type(v), RRData_try_into_bytes(v),
                                        0, checked)]
    /\ UNCHANGED not_codec

\* rdata_parse applied to a packet at an offset
RdataParse(ty, in, checked) ==
    /\ c_fn = "none"
    /\ c_fn' = "rdata_parse"
    /\ c_in' = [ty |-> ty, packet |-> in.packet, pos |-> in.pos]
    /\ c_out' = rdata_parse(ty, in.packet, in.pos, checked)
    /\ UNCHANGED not_codec

(***************************************************************************)
(* Questions, resource records and packets (protocol/question.rs,          *)
(* protocol/rr/mod.rs, protocol/mod.rs).  An Option is a sequence of at    *)
(* most one element.                                                       *)
(***************************************************************************)
\* Question::build
Question_build(name, ty, class) ==
    [name |-> name, ty |-> ty, class |-> class, size |-> Name_len(name) + 1 + 2 * 2]

\* Question::parse: advance(end) and the two get_u16 abort when fewer than
\* four bytes follow the name
Question_parse(packet, pos) ==
    LET after_name(n) ==
            IF n.kind # "ok" THEN n
            ELSE IF n.end + 4 > Len(packet) THEN Panic
            ELSE Ok([name |-> n.val,
                     ty |-> RRType_from(get_u16(packet, n.end)),
                     class |-> RRClass_from(get_u16(packet, n.end + 2)),
                     size |-> n.end + 4 - pos], n.end + 4)
    IN  after_name(Name_parse(packet, pos))

\* Question::into_bytes
Question_into_bytes(q) ==
    Name_as_bytes_uncompressed(q.name)
    \o put_u16(RRType_into(q.ty)) \o put_u16(RRClass_into(q.class))

\* RR::new, the ttl given in whole seconds
RR_new(domain, ttl, class, r_data) ==
    [domain |-> domain, ttl |-> ttl, ty |-> RRData_get_type(r_data),
     class |-> class, size |-> 0, r_data |-> r_data]

\* RR::parse: type, class and ttl are read without a look at the length
RR_parse(packet, pos, checked) ==
    LET after_rdata(n, ty, d) ==
            IF d.kind # "ok" THEN d
            ELSE Ok([domain |-> n.val, ttl |-> get_u32(packet, n.end + 4),
                     ty |-> ty,
                     class |-> RRClass_from(get_u16(packet, n.end + 2)),
                     size |-> d.end - pos, r_data |-> d.val], d.end)
        after_name(n) ==
            IF n.kind # "ok" THEN n
            ELSE IF n.end + 8 > Len(packet) THEN Panic
            ELSE after_rdata(n, RRType_from(get_u16(packet, n.end)),
                             rdata_parse(RRType_from(get_u16(packet, n.end)),
                                         packet, n.end + 8, checked))
    IN  after_name(Name_parse(packet, pos))

\* RR::into_bytes
RR_into_bytes(rr) ==
    Name_as_bytes_uncompressed(rr.domain)
    \o put_u16(RRType_into(rr.ty)) \o put_u16(RRClass_into(rr.class))
    \o put_u32(rr.ttl) \o RRData_try_into_bytes(rr.r_data)

\* Packet::new_plain_answer and Packet::new_query with their records
Packet_new_plain_answer(id) ==
    [header |-> Header_new_answer(id, 0, 0, 0), question |-> <<>>,
     answers |-> <<>>, authorities |-> <<>>, additions |-> <<>>]

Packet_new_query(id, query) ==
    [header |-> Header_new_query(id), question |-> <<query>>,
     answers |-> <<>>, authorities |-> <<>>, additions |-> <<>>]

\* Packet::set_question, add_answer, add_authority, add_addition
set_question(p, q) ==
    [p EXCEPT !.header.questions = 1, !.question = <<q>>]

add_answer(p, rr) ==
    [p EXCEPT !.answers = Append(@, rr),
              !.header.answers = (@ + 1) % 65536]

add_authority(p, rr) ==
    [p EXCEPT !.authorities = Append(@, rr),
              !.header.authorities = (@ + 1) % 65536]

add_addition(p, rr) ==
    [p EXCEPT !.additions = Append(@, rr),
              !.header.additional = (@ + 1) % 65536]

\* one of the three record loops of parse_packet and parse_stream
RECURSIVE parse_rrs(_, _, _, _, _)
parse_rrs(packet, offset, count, acc, checked) ==
    LET next(rr) ==
            IF rr.kind # "ok" THEN rr
            ELSE parse_rrs(packet, rr.end, count - 1, Append(acc, rr.val), checked)
    IN  IF count = 0 THEN Ok(acc, offset)
        ELSE next(RR_parse(packet, offset, checked))

\* a PacketError tagged with the id of the header, an abort as it is
tagged(id, r) == IF r.kind = "err" THEN TErr(id, r.error) ELSE r

\* what follows the header in Packet::parse_packet (mod.rs:75-122) and in
\* Packet::parse_stream (mod.rs:163-211); the header counts at most one
\* question
parse_sections(h, packet, offset, checked) ==
    LET after_additions(q, an, ns, ar) ==
            IF ar.kind # "ok" THEN tagged(h.id, ar)
            ELSE Ok([header |-> h, question |-> q.val, answers |-> an.val,
                     authorities |-> ns.val, additions |-> ar.val], ar.end)
        after_authorities(q, an, ns) ==
            IF ns.kind # "ok" THEN tagged(h.id, ns)
            ELSE after_additions(q, an, ns,
                     parse_rrs(packet, ns.end, h.additional, <<>>, checked))
        after_answers(q, an) ==
            IF an.kind # "ok" THEN tagged(h.id, an)
            ELSE after_authorities(q, an,
                     parse_rrs(packet, an.end, h.authorities, <<>>, checked))
        after_question(q) ==
            IF q.kind # "ok" THEN tagged(h.id, q)
            ELSE after_answers(q, parse_rrs(packet, q.end, h.answers, <<>>, checked))
        some(r) == IF r.kind = "ok" THEN Ok(<<r.val>>, r.end) ELSE r
    IN  IF h.is_query /\ h.answers # 0 THEN TErr(h.id, "FormatError")
        ELSE after_question(IF h.questions = 0 THEN Ok(<<>>, offset)
                            ELSE some(Question_parse(packet, offset)))

\* Packet::parse_packet
Packet_parse_packet(packet, offset, checked) ==
    LET h == Header_parse(packet, offset)
    IN  IF h.kind # "ok" THEN h
        ELSE parse_sections(h.val, packet, offset + 12, checked)

\* Packet::parse_stream: read is the number of bytes the one read_buf call
\* returns of what follows the header in the stream
Packet_parse_stream(stream, read, checked) ==
    IF Len(stream) < 2 THEN TErr(NoId, "ServFail")
    ELSE
    LET len == get_u16(stream, 0)
        rest == SubSeq(stream, 3, Len(stream))
        h == Header_parse_stream(rest)
    IN  IF h.kind # "ok" THEN h
        ELSE IF len < 12 THEN TErr(h.val.id, "FormatError")
        ELSE IF read < len - 12 THEN TErr(h.val.id, "FormatError")
        ELSE parse_sections(h.val, Rep(0, 12) \o SubSeq(rest, 13, 12 + read),
                            12, checked)

RECURSIVE rrs_bytes(_)
rrs_bytes(rrs) ==
    IF rrs = <<>> THEN <<>> ELSE RR_into_bytes(Head(rrs)) \o rrs_bytes(Tail(rrs))

\* Packet::into_bytes
Packet_into_bytes(p) ==
    Header_try_into_bytes(p.header)
    \o (IF p.question = <<>> THEN <<>> ELSE Question_into_bytes(p.question[1]))
    \o rrs_bytes(p.answers) \o rrs_bytes(p.authorities) \o rrs_bytes(p.additions)

\* the longest prefix of an emitted packet that is parsed
MaxCut == 40

\* the packets built for the round trip: new_plain_answer, new_query and
\* set_question, then up to two add_answer, add_authority, add_addition
BuiltPackets ==
    LET PacketIds == {0, 9, 4660}
        TheQuestion ==
            Question_build(<<<<97>>, <<98>>>>, RRType_from(1), RRClass_from(1))
        RR_A == RR_new(<<<<97>>>>, [hi |-> 0, lo |-> 600], RRClass_from(1),
                       [ty |-> "A", addr |-> [hi |-> 4883, lo |-> 20736]])
        PacketRdata ==
            {[ty |-> "A", addr |-> [hi |-> 4883, lo |-> 20736]],
             [ty |-> "Aaaa", addr |-> [i \in 1..8 |-> 1]],
             [ty |-> "Cname", domain |-> <<<<97>>>>],
             [ty |-> "Ns", domain |-> <<<<97>>>>],
             [ty |-> "Ptr", domain |-> <<<<97>>>>],
             [ty |-> "Mx", preference |-> 10, domain |-> <<<<97>>>>],
             [ty |-> "Txt", text |-> <<<<65>>>>],
             [ty |-> "HInfo", cpu |-> <<65>>, os |-> <<66>>],
             [ty |-> "Wks", addr |-> [hi |-> 0, lo |-> 1], proto |-> 6, bmp |-> <<65>>],
             [ty |-> "Null", data |-> <<65>>],
             [ty |-> "UNKNOWN", rtype |-> 99, length |-> 1, data |-> <<65>>]}
        RRs == {RR_new(<<<<97>>>>, [hi |-> 0, lo |-> 600], RRClass_from(1), v) :
                   v \in PacketRdata}
        Bases ==
            {Packet_new_plain_answer(id) : id \in PacketIds}
            \cup {Packet_new_query(id, TheQuestion) : id \in PacketIds}
            \cup {set_question(Packet_new_plain_answer(id), TheQuestion) :
                     id \in PacketIds}
        WithAnswers ==
            Bases \cup {add_answer(p, rr) : p \in Bases, rr \in RRs}
                  \cup {add_answer(add_answer(p, RR_A), rr) : p \in Bases, rr \in RRs}
        WithAuthority == WithAnswers \cup {add_authority(p, RR_A) : p \in WithAnswers}
    IN  WithAuthority \cup {add_addition(p, RR_A) : p \in WithAuthority}

\* the packets whose prefixes are parsed: those with at most one answer
\* and no other record
CutPackets ==
    {p \in BuiltPackets :
        Len(p.answers) <= 1 /\ p.authorities = <<>> /\ p.additions = <<>>}

\* a packet is built, emitted, parsed from the buffer and from a stream
\* that holds the length-prefixed bytes, and the parsed packet emitted
PacketRoundTrip(p, checked) ==
    /\ c_fn = "none"
    /\ c_fn' = "Packet::into_bytes"
    /\ c_in' = p
    /\ c_out' =
          LET bytes == Packet_into_bytes(p)
              emitted(r) == IF r.kind = "ok" THEN Packet_into_bytes(r.val) ELSE <<>>
              out(parsed, streamed) ==
                  [bytes |-> bytes,
                   parsed |-> parsed,
                   again |-> emitted(parsed),
                   streamed |-> streamed,
                   streamed_again |-> emitted(streamed)]
          IN  out(Packet_parse_packet(bytes, 0, checked),
                  Packet_parse_stream(put_u16(Len(bytes)) \o bytes,
                                      Len(bytes) - 12, checked))
    /\ UNCHANGED not_codec

\* the first cut bytes of an emitted packet are parsed, from the buffer and
\* from a stream that holds them behind their length
PacketParse(p, cut, checked) ==
    /\ c_fn = "none"
    /\ cut >= 12
    /\ cut <= Len(Packet_into_bytes(p))
    /\ c_fn' = "Packet::parse_packet"
    /\ c_in' = [bytes |-> SubSeq(Packet_into_bytes(p), 1, cut),
                whole |-> cut = Len(Packet_into_bytes(p))]
    /\ c_out' =
          LET bytes == SubSeq(Packet_into_bytes(p), 1, cut)
          IN  [parsed |-> Packet_parse_packet(bytes, 0, checked),
               streamed |-> Packet_parse_stream(put_u16(cut) \o bytes, cut - 12,
                                                checked)]
    /\ UNCHANGED not_codec

\* mod.rs:125-161: parse_stream on a stream that holds the frame of an
\* emitted packet and then tail, the first bytes of the frame that follows.
\* read_u16 and Header::parse_stream wait for their bytes; the one read_buf
\* call returns what the transport has delivered by then: read bytes, at
\* least one unless the stream is at its end.
StreamRead(p, tail, read, checked) ==
    /\ c_fn = "none"
    /\ read <= Len(Packet_into_bytes(p)) - 12 + Len(tail)
    /\ read = 0 => Len(Packet_into_bytes(p)) - 12 + Len(tail) = 0
    /\ c_fn' = "Packet::parse_stream"
    /\ c_in' = [frame |-> put_u16(Len(Packet_into_bytes(p))) \o Packet_into_bytes(p),
                tail |-> tail, read |-> read]
    /\ c_out' =
          LET frame == put_u16(Len(Packet_into_bytes(p))) \o Packet_into_bytes(p)
          IN  [result |-> Packet_parse_stream(frame \o tail, read, checked),
               whole |-> Packet_parse_stream(frame, Len(frame) - 14, checked),
               consumed |-> 2 + 12 + read]
    /\ UNCHANGED not_codec

(***************************************************************************)
(* Building a packet (protocol/mod.rs): a packet is created and then       *)
(* changed by the set_ and add_ operations, one at a time.  c_out is the   *)
(* packet built so far, c_fn the operation applied last.                   *)
(***************************************************************************)
\* the longest section that is built
MaxRecords == 2

\* Packet::new_failure with Header::new_failure
Packet_new_failure(id, error) ==
    [header |->
        [id |-> id, is_query |-> FALSE, opcode |-> Op_from(0), is_auth |-> FALSE,
         is_trunc |-> FALSE, is_rec_des |-> FALSE, is_rec_avl |-> FALSE, z |-> 0,
         response |-> CASE error = "FormatError" -> Rcode_from(1)
                        [] error = "ServFail" -> Rcode_from(2)
                        [] error = "NameError" -> Rcode_from(3)
                        [] error = "NotImpl" -> Rcode_from(4)
                        [] OTHER -> Rcode_from(5),
         questions |-> 0, answers |-> 0, authorities |-> 0, additional |-> 0],
     question |-> <<>>, answers |-> <<>>, authorities |-> <<>>, additions |-> <<>>]

\* the vector stored and the count left as it was
set_answers_only(p, v) == [p EXCEPT !.answers = v]

\* Packet::set_answers, set_authorities, set_addtionals: len() as u16
set_answers(p, v) ==
    [p EXCEPT !.header.answers = Len(v) % 65536, !.answers = v]

set_authorities(p, v) ==
    [p EXCEPT !.header.authorities = Len(v) % 65536, !.authorities = v]

set_addtionals(p, v) ==
    [p EXCEPT !.header.additional = Len(v) % 65536, !.additions = v]

\* the questions, the records and the vectors of records given to the
\* operations
BuildQuestions ==
    {Question_build(n, RRType_from(1), RRClass_from(1)) : n \in {<<>>, <<<<97>>>>}}
BuildRRs ==
    {RR_new(<<<<97>>>>, [hi |-> 0, lo |-> 600], RRClass_from(1),
            [ty |-> "A", addr |-> [hi |-> 0, lo |-> a]]) : a \in {1}}
BuildVecs == UNION {[1..n -> BuildRRs] : n \in 0..MaxRecords}

\* a packet is being built
Building == c_fn \notin {"none", "Header::try_into_bytes", "Header::parse_stream",
                         "Name::as_bytes_uncompressed", "Name::parse", "Name::eq",
                         "RRData::try_into_bytes", "rdata_parse",
                         "Packet::into_bytes", "Packet::parse_packet",
                         "Packet::parse_stream"}

\* Packet::new_plain_answer, Packet::new_query, Packet::new_failure
NewPacket(fn, p) ==
    /\ c_fn = "none"
    /\ c_fn' = fn
    /\ c_in' = <<>>
    /\ c_out' = p
    /\ UNCHANGED not_codec

SetQuestion(q) ==
    /\ Building
    /\ c_fn' = "Packet::set_question"
    /\ c_in' = q
    /\ c_out' = set_question(c_out, q)
    /\ UNCHANGED not_codec

SetAnswers(v) ==
    /\ Building
    /\ c_fn' = "Packet::set_answers"
    /\ c_in' = v
    /\ c_out' = set_answers(c_out, v)
    /\ UNCHANGED not_codec

SetAuthorities(v) ==
    /\ Building
    /\ c_fn' = "Packet::set_authorities"
    /\ c_in' = v
    /\ c_out' = set_authorities(c_out, v)
    /\ UNCHANGED not_codec

SetAddtionals(v) ==
    /\ Building
    /\ c_fn' = "Packet::set_addtionals"
    /\ c_in' = v
    /\ c_out' = set_addtionals(c_out, v)
    /\ UNCHANGED not_codec

AddAnswer(rr) ==
    /\ Building
    /\ Len(c_out.answers) < MaxRecords
    /\ c_fn' = "Packet::add_answer"
    /\ c_in' = rr
    /\ c_out' = add_answer(c_out, rr)
    /\ UNCHANGED not_codec

AddAuthority(rr) ==
    /\ Building
    /\ Len(c_out.authorities) < MaxRecords
    /\ c_fn' = "Packet::add_authority"
    /\ c_in' = rr
    /\ c_out' = add_authority(c_out, rr)
    /\ UNCHANGED not_codec

AddAddition(rr) ==
    /\ Building
    /\ Len(c_out.additions) < MaxRecords
    /\ c_fn' = "Packet::add_addition"
    /\ c_in' = rr
    /\ c_out' = add_addition(c_out, rr)
    /\ UNCHANGED not_codec

NextBuild ==
    \/ \E id \in {0, 4660} :
          NewPacket("Packet::new_plain_answer", Packet_new_plain_answer(id))
    \/ \E id \in {0, 4660}, q \in BuildQuestions :
          NewPacket("Packet::new_query", Packet_new_query(id, q))
    \/ \E id \in {0, 4660}, e \in {"FormatError", "ServFail"} :
          NewPacket("Packet::new_failure", Packet_new_failure(id, e))
    \/ \E q \in BuildQuestions : SetQuestion(q)
    \/ \E v \in BuildVecs : SetAnswers(v)
    \/ \E v \in BuildVecs : SetAuthorities(v)
    \/ \E v \in BuildVecs : SetAddtionals(v)
    \/ \E rr \in BuildRRs : AddAnswer(rr)
    \/ \E rr \in BuildRRs : AddAuthority(rr)
    \/ \E rr \in BuildRRs : AddAddition(rr)

\* the inputs a codec function may still be applied to: those of the set
\* S before any function has been applied, none afterwards
Inputs(S) == IF c_fn = "none" THEN S ELSE {}

\* one codec function is applied to one input in each behaviour
NextCodec ==
    \/ \E bytes \in Inputs(HeaderBytes) : HeaderRoundTrip(bytes)
    \/ \E bytes \in Inputs(HeaderBytes), cut \in Cuts \cup {12} :
          HeaderParsers(bytes, cut)
    \/ \E s \in Inputs(Texts) : NameRoundTrip(s)
    \/ \E packet \in Inputs(NamePackets \cup LongLabels), pos \in 0..MaxNameBytes :
          pos <= Len(packet) /\ NameParse(packet, pos, -1)
    \/ \E k \in Inputs(0..MaxChain) :
          NameParse(Chain_bytes(k), IF k = 0 THEN 0 ELSE 2 * k + 1, k)
    \/ \E v \in Inputs(RdataValues), checked \in BOOLEAN : RdataRoundTrip(v, checked)
    \/ \E n \in Inputs({1, 2, 5, 6, 7, 9, 10, 11, 12, 13, 14, 15, 16, 28, 99}),
          in \in RdataPackets, checked \in BOOLEAN :
          RdataParse(RRType_from(n), in, checked)
    \/ \E x \in Inputs({<<>>, <<<<97>>>>, <<<<98>>>>, <<<<97>>, <<98>>>>, <<<<97>>, <<99>>>>,
                         <<<<65>>, <<98>>>>}),
          y \in {<<>>, <<<<97>>>>, <<<<97>>, <<98>>>>, <<<<97>>, <<99>>>>},
          z \in {<<>>, <<<<98>>>>, <<<<97>>, <<98>>>>, <<<<97>>, <<98>>, <<99>>>>} :
          NameEq(x, y, z)
    \/ \E p \in Inputs(BuiltPackets), checked \in BOOLEAN : PacketRoundTrip(p, checked)
    \/ \E p \in Inputs(CutPackets), cut \in 12..MaxCut, checked \in BOOLEAN :
          PacketParse(p, cut, checked)
    \/ \E p \in Inputs(CutPackets), tail \in {<<>>, <<0, 12>>}, read \in 0..MaxCut,
          checked \in BOOLEAN :
          StreamRead(p, tail, read, checked)

(***************************************************************************)
(* Specifications.                                                         *)
(***************************************************************************)
(***************************************************************************)
(* The stream services: Service::run (comm/stream/service.rs) over a       *)
(* Listener, TcpService::run (comm/stream/tcp.rs), with the workers they   *)
(* spawn seen from the pool: a worker checks its one-shot receiver at the  *)
(* head of its loop and sends ShutDown when it ends.  The pool's entries   *)
(* are kept for 120 s; the model covers a span shorter than that.          *)
(***************************************************************************)
Conns == 1..MaxConns
Peers == {"p1", "p2"}
NoWorker == 0

\* Message::Update and Message::ShutDown; from is the worker that sent the
\* message, which the program does not record
Update(w) == [kind |-> "Update", client |-> sv_client[w], from |-> w]
ShutDown(w) == [kind |-> "ShutDown", client |-> sv_client[w], from |-> w]

InitService ==
    /\ sv_accepting = TRUE
    /\ sv_acquired = "none"
    /\ sv_n = 0
    /\ sv_client = [w \in Conns |-> "none"]
    /\ sv_run = [w \in Conns |-> "none"]
    /\ sv_checker = [w \in Conns |-> "Empty"]
    /\ sv_pool = [c \in Peers |-> NoWorker]
    /\ sv_message = <<>>

\* a one-shot sender is dropped: its receiver reads Closed from then on
drop(ck, w) == IF w = NoWorker THEN ck ELSE [ck EXCEPT ![w] = "Closed"]

\* service.rs:93, tcp.rs:60: while let Ok(..) = listener.acquire().await
still_accepting(how) == how = "ok"

\* service.rs:93-102, tcp.rs:60-69: the listening task's acquire returns.
\* how = "ok": Worker::serve spawns the worker and the pool takes its sender
\* under the client's address, dropping the sender it held for the address.
\* how = "accept": the accept failed; how = "handshake": tls.rs:47, the TLS
\* handshake failed (TlsListener only; TcpService::run is the same loop over
\* accept alone).  Either ends the while let loop.
Acquire(client, how) ==
    /\ sv_accepting
    /\ sv_n < MaxConns
    /\ sv_acquired' = how
    /\ sv_accepting' = still_accepting(how)
    /\ IF how = "ok"
       THEN /\ sv_n' = sv_n + 1
            /\ sv_client' = [sv_client EXCEPT ![sv_n + 1] = client]
            /\ sv_run' = [sv_run EXCEPT ![sv_n + 1] = "serving"]
            /\ sv_checker' = drop(sv_checker, sv_pool[client])
            /\ sv_pool' = [sv_pool EXCEPT ![client] = sv_n + 1]
       ELSE UNCHANGED <<sv_n, sv_client, sv_run, sv_checker, sv_pool>>
    /\ UNCHANGED sv_message
    /\ UNCHANGED not_service

\* worker.rs:76-80 and 186-188: the head of the worker's loop.  With the
\* receiver Empty the worker sends Update and serves on; with the sender
\* dropped it leaves the loop and sends ShutDown.
WorkerLoop(w) ==
    /\ sv_run[w] = "serving"
    /\ Len(sv_message) < MaxMessages
    /\ IF sv_checker[w] = "Empty"
       THEN /\ sv_message' = Append(sv_message, Update(w))
            /\ UNCHANGED sv_run
       ELSE /\ sv_message' = Append(sv_message, ShutDown(w))
            /\ sv_run' = [sv_run EXCEPT ![w] = "finished"]
    /\ UNCHANGED <<sv_accepting, sv_acquired, sv_n, sv_client,
                   sv_checker, sv_pool>>
    /\ UNCHANGED not_service

\* worker.rs:83-94, 98-108, 116-128, 149-157, 176-183: the worker meets its
\* own closing condition (end of stream, a failed write, a second rejected
\* packet) and sends ShutDown
WorkerEnds(w) ==
    /\ sv_run[w] = "serving"
    /\ Len(sv_message) < MaxMessages
    /\ sv_message' = Append(sv_message, ShutDown(w))
    /\ sv_run' = [sv_run EXCEPT ![w] = "finished"]
    /\ UNCHANGED <<sv_accepting, sv_acquired, sv_n, sv_client,
                   sv_checker, sv_pool>>
    /\ UNCHANGED not_service

\* service.rs:113-116, tcp.rs:80-83: pool.remove(&client)
remove(pl, m) == [pl EXCEPT ![m.client] = NoWorker]

\* service.rs:107-119, tcp.rs:74-86: the updating task receives a message.
\* Update reads the entry; ShutDown removes the entry of the address, and
\* the sender the entry held is dropped.
Updating ==
    /\ sv_message # <<>>
    /\ sv_message' = Tail(sv_message)
    /\ IF Head(sv_message).kind = "Update"
       THEN UNCHANGED <<sv_pool, sv_checker>>
       ELSE /\ sv_pool' = remove(sv_pool, Head(sv_message))
            /\ sv_checker' =
                  IF remove(sv_pool, Head(sv_message)) = sv_pool THEN sv_checker
                  ELSE drop(sv_checker, sv_pool[Head(sv_message).client])
    /\ UNCHANGED <<sv_accepting, sv_acquired, sv_n, sv_client, sv_run>>
    /\ UNCHANGED not_service

NextService ==
    \/ \E client \in Peers, how \in {"ok", "accept", "handshake"} : Acquire(client, how)
    \/ \E w \in Conns : WorkerLoop(w)
    \/ \E w \in Conns : WorkerEnds(w)
    \/ Updating

Init ==
    /\ InitWorker /\ InitForward /\ now = 0 /\ InitCache /\ InitTx /\ InitQuic /\ InitUdp
    /\ InitCodec /\ InitService

Next ==
    NextWorker \/ NextForward \/ NextCache \/ NextTx \/ NextQuic \/ NextUdp \/ NextCodec
    \/ NextBuild \/ NextService

Spec == Init /\ [][Next]_vars

\* the stream workers alone
SpecWorker == Init /\ [][NextWorker]_vars

\* the worker with the scheduling the runtime gives it: a worker that can
\* run its loop head does so, and the engine ends every answer stream; what
\* the client sends, and when, is left open
SpecWorkerFair ==
    /\ Init
    /\ [][NextWorker]_vars
    /\ WF_vars(LoopHead)
    /\ WF_vars(\E ok \in BOOLEAN : RecvClosed(ok))

\* the UDP upstream forwarder alone
SpecForward == Init /\ [][NextForward]_vars

\* the cache of cache/mod.rs alone
SpecCache == Init /\ [][NextCache]_vars

\* the transaction engine of main.rs alone
SpecTx == Init /\ [][NextTx]_vars

\* the QUIC upstream forwarder alone
SpecQuic == Init /\ [][NextQuic]_vars

\* the UDP server alone
SpecUdp == Init /\ [][NextUdp]_vars

\* the wire codec alone: its functions applied to inputs of bounded sets
SpecCodec == Init /\ [][NextCodec]_vars

\* the building of packets alone
SpecBuild == Init /\ [][NextBuild]_vars

\* a stream service with its workers alone
SpecService == Init /\ [][NextService]_vars

(***************************************************************************)
(* Properties of the stream workers.                                       *)
(***************************************************************************)
Malformed(f) == f.kind = "format"
Rejected(f) == f.kind \in {"format", "nonquery"}
Accepted(f) == f.kind = "query"

\* packets written while frame i was handled
Resp(i) == {j \in 1..Len(wr) : wr[j].for = i}

\* the handling of frame i is over
Handled(i) == i < Len(rd) \/ w_pc # "Collecting"

\* the worker has not left its loop
Open == w_pc \notin {"Closed", "Panicked"}

\* an accepted query lies strictly between frames k and i
QueryBetween(k, i) == \E m \in (k+1)..(i-1) : Accepted(rd[m])

\* frame i is the first rejected frame since the start or the last accepted query
FirstRejected(i) == \A k \in 1..(i-1) : Rejected(rd[k]) => QueryBetween(k, i)

\* frame i got exactly one response and it is a failure response
OneFailure(i) ==
    /\ Cardinality(Resp(i)) = 1
    /\ \A j \in Resp(i) : wr[j].kind = "failure"

\* C1: as long as writes succeed, a malformed frame that is the first
\* rejected frame since the start or the last accepted query gets exactly one
\* failure response and the worker keeps the connection open; a malformed
\* frame that follows a malformed frame with no accepted query in between
\* gets a failure response and the worker then closes the connection.
C1_SuspectRule ==
    \A i \in 1..Len(rd) :
        (Malformed(rd[i]) /\ ~wr_failed) =>
            /\ FirstRejected(i) =>
                 /\ OneFailure(i)
                 /\ (i = Len(rd) /\ checker = "Empty") => Open
            /\ (\E k \in 1..(i-1) : Malformed(rd[k]) /\ ~QueryBetween(k, i)) =>
                 /\ OneFailure(i)
                 /\ i = Len(rd)
                 /\ w_pc = "Closed"

\* C2: as long as writes succeed, a non-query packet gets one failure
\* response and leaves the worker Suspect, and a rejected packet (non-query or
\* malformed) right after a non-query packet closes the connection.
C2_NonQuerySuspect ==
    \A i \in 1..Len(rd) :
        (rd[i].kind = "nonquery" /\ ~wr_failed) =>
            /\ OneFailure(i)
            /\ (i = Len(rd) /\ Open) => is_suspected
            /\ (i < Len(rd) /\ Rejected(rd[i+1])) =>
                 (i + 1 = Len(rd) /\ w_pc = "Closed")

\* C3: as long as writes succeed and the pool does not stop the worker, after
\* the frames malformed, accepted query, malformed the connection is still
\* open and each of the two malformed frames got exactly one failure response.
C3_QueryForgives ==
    \A i \in 1..(Len(rd) - 2) :
        ( /\ Malformed(rd[i]) /\ FirstRejected(i)
          /\ Accepted(rd[i+1])
          /\ Malformed(rd[i+2])
          /\ ~wr_failed ) =>
            /\ OneFailure(i)
            /\ OneFailure(i+2)
            /\ (i + 2 = Len(rd) /\ checker = "Empty") => Open

\* C4: as long as writes succeed, every accepted query whose handling is over
\* got exactly one response: the failure response alone if an Answer::Error
\* was received, the assembled answer packet otherwise; responses appear on
\* the stream in the order the frames were read.
C4_OneResponsePerQuery ==
    /\ \A i \in 1..Len(rd) :
        (Accepted(rd[i]) /\ Handled(i) /\ ~wr_failed) =>
            /\ Cardinality(Resp(i)) = 1
            /\ \A j \in Resp(i) :
                 /\ wr[j].id = rd[i].id
                 /\ (i \in errs) => wr[j].kind = "failure"
                 /\ (i \notin errs /\ i = Len(rd)) =>
                      wr[j] = [for |-> i] @@ write_packet(Assembled)
    /\ \A j, k \in 1..Len(wr) : j < k => wr[j].for <= wr[k].for

\* the same statements restricted to one of the two workers
C1_OnGenericWorker == proto = "stream" => C1_SuspectRule
C3_OnGenericWorker == proto = "stream" => C3_QueryForgives
C2_OnQuicWorker == proto = "quic" => C2_NonQuerySuspect

(***************************************************************************)
(* Properties of the UDP upstream forwarder.                               *)
(***************************************************************************)
\* task t ran into the transaction timeout
TimedOut(t) == rx[t] = "dropped"

\* task t is outstanding: taken from the queue and not yet answered
Outstanding(t) == t <= n_tasks /\ chk[t] # "done"

\* the table holds an entry whose sender belongs to task t
InTable(t) == \E i \in UpIds : mp[i] = t

\* C5: once a query has run into the transaction timeout, its sink holds
\* exactly one Answer::Error(ServFail) and the in-flight table holds no entry
\* for the query any more.
C5_TimeoutCleansUp ==
    \A t \in 1..n_tasks :
        TimedOut(t) =>
            /\ sink[t] = <<Err("ServFail")>>
            /\ ~InTable(t)

\* C6: a sink never receives a record of a response to another query; a
\* query that completed without timing out (and whose response was not
\* garbled) has received exactly the records of its own response; and once
\* every query has completed that way the in-flight table is empty.
C6_OwnAnswerOnly ==
    /\ \A t \in 1..n_tasks : \A k \in 1..Len(sink[t]) :
          sink[t][k].tag # "Error" => sink[t][k].rr = task_q[t]
    /\ \A t \in 1..n_tasks :
          (chk[t] = "done" /\ ~TimedOut(t) /\ task_id[t] \notin garbled) =>
              sink[t] = Chain(UpstreamPacket(task_q[t]))
    /\ ( /\ n_tasks > 0
         /\ \A t \in 1..n_tasks :
               chk[t] = "done" /\ ~TimedOut(t) /\ task_id[t] \notin garbled )
       => \A i \in UpIds : mp[i] = NoTask

\* C7: the outstanding queries have pairwise distinct transaction ids, and
\* every outstanding query still has its own entry in the in-flight table
\* unless its response has already been matched.
C7_DistinctIds ==
    \A t1, t2 \in 1..n_tasks :
        (t1 # t2 /\ Outstanding(t1) /\ Outstanding(t2)) =>
            /\ task_id[t1] # task_id[t2]
            /\ rx[t1] # "closed"

\* the statement of C6 when random() happened to return distinct ids
C6_WithDistinctIds ==
    (\A t1, t2 \in 1..n_tasks : t1 # t2 => task_id[t1] # task_id[t2])
        => C6_OwnAnswerOnly

\* the datagram d reaches no waiter that is still waiting
NoLiveWaiter(d) ==
    \/ d.kind = "short"
    \/ d.id = NoId
    \/ \A t \in 1..n_tasks : task_id[t] = d.id => rx[t] # "pending"

\* C8: a datagram that matches no live waiter changes nothing but the
\* reader's own position: the reader keeps running, and the sinks, the
\* waiters and the entries of live waiters stay as they are.
C8_UnmatchedDropped ==
    [][ (n_dgrams' = n_dgrams + 1 /\ NoLiveWaiter(dgram'))
        => ( /\ listening' = "running"
             /\ rx' = rx
             /\ sink' = sink ) ]_vars


(***************************************************************************)
(* Properties of the cache and of the transaction engine.                  *)
(***************************************************************************)
\* a lookup of q through DnsCache::get is waiting for the forwarded result
Pending(q) == \E l \in Lookups : lk_q[l] = q /\ lk_pc[l] \in {"init", "wait"}

\* a Task::Query for q taken by the engine is waiting for the forwarded result
TxPending(q) == \E t \in Txs : tx_q[t] = q /\ tx_pc[t] = "forwarding"

HasError(data) == \E i \in 1..Len(data) : data[i].tag = "Error"

\* C9: while a lookup of a question that missed the cache is waiting for its
\* forwarded result, no further forwarding task is sent for that question:
\* concurrent lookups of one question share one forwarding task.
C9_SingleFlight ==
    [][\A q \in Questions :
          /\ Pending(q) => rec_sent'[q] = rec_sent[q]
          /\ TxPending(q) => tx_sent'[q] = tx_sent[q]]_vars

\* C9 restricted to DnsCache::get: lookups that wait together were served by
\* one forwarding task and resume with the same data and deadline.
C9_OnDnsCache ==
    [][\A q \in Questions :
          /\ Pending(q) => rec_sent'[q] = rec_sent[q]
          /\ \A l1, l2 \in Lookups :
                (/\ lk_q[l1] = q /\ lk_q[l2] = q
                 /\ lk_pc[l1] \in {"init", "wait"} /\ lk_pc[l2] \in {"init", "wait"}
                 /\ lk_pc'[l1] = "ready")
                => /\ lk_pc'[l2] = "ready"
                   /\ lk_got'[l2] = lk_got'[l1]
                   /\ lk_ddl'[l2] = lk_ddl'[l1]]_vars

\* C10: an error answer is never stored in the cache: no entry the cache holds
\* contains an Answer::Error, and no lookup served from a stored entry returns
\* one.
C10_ErrorNotCached ==
    /\ \A q \in Questions : Held(cache[q]) => ~HasError(cache[q].data)
    /\ \A l \in Lookups : lk_hit[l] => ~HasError(lk_res[l])

\* C10, second half alone: a lookup that follows one that ended with an error
\* is not answered from the cache.
C10_NoRememberedError ==
    \A l \in Lookups : lk_hit[l] => ~HasError(lk_res[l])


\* lookup l has just been started by this step
Started(l) == lk_pc[l] = "idle" /\ lk_pc'[l] # "idle"

\* the entry the cache holds for q has reached its deadline
Stale(q) == Held(cache[q]) /\ cache[q].ddl <= now

\* C11: a lookup never returns the stored answers of an entry whose deadline
\* has been reached (now >= ddl): it is not served from the entry, it waits
\* for a forwarding of the question, and exactly the lookups that find no
\* forwarding in progress send a task.
C11_StaleIsMiss ==
    [][\A l \in Lookups :
          (Started(l) /\ Stale(lk_q'[l]))
          => /\ ~lk_hit'[l]
             /\ lk_pc'[l] \in {"init", "wait"}
             /\ filling'[lk_q'[l]]
             /\ rec_sent'[lk_q'[l]] =
                   rec_sent[lk_q'[l]] + (IF filling[lk_q'[l]] THEN 0 ELSE 1)]_vars

\* C11 witness: a lookup found an entry at its deadline and is refilling it
C11_Witness ==
    \E l \in Lookups :
       /\ lk_pc[l] = "init"
       /\ Stale(lk_q[l])
       /\ cache[lk_q[l]].ddl = now
       /\ cache[lk_q[l]].data # <<>>

\* C11 on the engine of main.rs: a task answered from the cache found a
\* record whose deadline was still ahead.
C11_OnTransaction ==
    [][\A t \in Txs :
          (tx_pc[t] = "none" /\ tx_pc'[t] = "done")
          => tcache[tx_q'[t]].present /\ tcache[tx_q'[t]].ddl > now]_vars


\* the minimum of the TTLs of the records of a non-empty error-free answer
\* vector, as a duration
RECURSIVE MinTtl(_)
MinTtl(data) ==
    IF Len(data) = 1 THEN get_ttl(data[1])
    ELSE LET m == MinTtl(Tail(data)) IN
         IF get_ttl(data[1]) < m THEN get_ttl(data[1]) ELSE m

\* the entry of q was filled with records and no error
FilledWithRecords(q) ==
    cache[q].present /\ cache[q].data # <<>> /\ ~HasError(cache[q].data)

Returns(l) == lk_pc[l] # "done" /\ lk_pc'[l] = "done"

\* the time left until deadline ddl, none once it is reached
Remaining(ddl) == IF ddl > now THEN ddl - now ELSE 0

\* the TTLs of the records of an answer vector
TtlsOf(data) == {data[i].ttl : i \in {j \in 1..Len(data) : data[j].tag # "Error"}}

\* C13: every record a cache lookup returns carries as TTL the whole seconds
\* left until the entry's deadline when the lookup returns, the same for all
\* its records; that TTL is never above the smallest TTL the upstream gave,
\* and among lookups served from one stored entry a later one never sees a
\* larger TTL than an earlier one.
C13_ResidualTtl ==
    [][\A l \in Lookups :
          Returns(l)
          => /\ Len(lk_res'[l]) = Len(lk_got[l])
             /\ \A i \in 1..Len(lk_got[l]) :
                   /\ lk_res'[l][i].tag = lk_got[l][i].tag
                   /\ lk_res'[l][i].rr = lk_got[l][i].rr
                   /\ lk_got[l][i].tag # "Error"
                      => /\ lk_res'[l][i].ttl = as_secs(Remaining(lk_ddl[l]))
                         /\ \A j \in 1..Len(lk_got[l]) :
                               lk_got[l][j].tag # "Error"
                               => lk_res'[l][i].ttl <= lk_got[l][j].ttl
             /\ \A k \in Lookups :
                   (/\ lk_pc[k] = "done" /\ lk_hit[k] /\ lk_hit[l]
                    /\ lk_q[k] = lk_q[l] /\ lk_ddl[k] = lk_ddl[l])
                   => \A a \in TtlsOf(lk_res[k]), b \in TtlsOf(lk_res'[l]) : b <= a]_vars

\* C13 witness: a lookup served from a stored entry 1.5 s before its deadline
\* returned its two records with TTL 1, the upstream having given more
C13_Witness ==
    \E l \in Lookups :
       /\ lk_pc[l] = "done" /\ lk_hit[l]
       /\ lk_ddl[l] - now = 1500
       /\ Len(lk_res[l]) = 2
       /\ TtlsOf(lk_res[l]) = {1}
       /\ \A t \in TtlsOf(lk_got[l]) : t > 1


\* the error answers of an answer sequence, in order
RECURSIVE ErrorsOf(_)
ErrorsOf(data) ==
    IF data = <<>> THEN <<>>
    ELSE (IF Head(data).tag = "Error" THEN <<Head(data)>> ELSE <<>>)
         \o ErrorsOf(Tail(data))

\* C14: when the upstream adapter has reported an error for a forwarded
\* query, the query's answer sink has been sent exactly one Answer::Error,
\* carrying that error.
C14_ErrorDelivered ==
    \A t \in Txs :
       Len(ErrorsOf(tx_got[t])) = 1 => ErrorsOf(tx_sink[t]) = ErrorsOf(tx_got[t])

\* C14 on DnsCache::get: a lookup whose forwarding ended with an error returns
\* that error and nothing else.
C14_OnDnsCache ==
    \A l \in Lookups :
       (lk_pc[l] = "done" /\ ~lk_hit[l] /\ HasError(lk_got[l]))
       => Len(lk_res[l]) = 1 /\ lk_res[l] = lk_got[l]


\* the engine's cache holds a record for q whose deadline is ahead
Fresh(q) == tcache[q].present /\ now < tcache[q].ddl

\* the engine takes a task for question q by this step
Takes(q) == n_tx' = n_tx + 1 /\ tx_q'[n_tx'] = q

\* C15: when the cache holds a fresh entry for a query's question, the
\* transaction engine answers the query from the cache, completes it, and
\* sends no task to the upstream forwarder.
C15_FreshIsLocal ==
    [][\A q \in Questions :
          (Takes(q) /\ Fresh(q))
          => /\ tx_sent' = tx_sent
             /\ tx_pc'[n_tx'] = "done"
             /\ Len(tx_sink'[n_tx']) = 1
             /\ tx_sink'[n_tx'][1].tag = "Answer"
             /\ tx_sink'[n_tx'][1].rr = tcache[q].rdata]_vars

\* C15 witness: the second task for a question was answered from the record
\* the first one's forwarding had put in the cache
C15_Witness ==
    \E t \in Txs :
       /\ tx_pc[t] = "done" /\ tx_got[t] = <<>> /\ Len(tx_sink[t]) = 1
       /\ tx_sent[tx_q[t]] = 1

\* C15 on DnsCache::get: a lookup that finds a fresh entry is served from it
\* and no task is sent.
C15_OnDnsCache ==
    [][\A l \in Lookups :
          (Started(l) /\ Held(cache[lk_q'[l]]) /\ now < cache[lk_q'[l]].ddl)
          => /\ rec_sent' = rec_sent
             /\ lk_hit'[l]
             /\ lk_got'[l] = cache[lk_q'[l]].data]_vars


\* the transaction timeout of task t has run out
Expired(t) == qf_pc[t] # "none" /\ now >= qf_at[t] + from_secs(TimeOut)

\* ans_to of task t has been dropped: nothing more can reach its sink
SinkClosed(t) == qf_pc[t] \in {"closed", "panicked"}

\* C16: a query handed to the QUIC forwarder has its outcome once the
\* transaction timeout has run out, and its answer sink is never closed with
\* nothing sent: without a usable response, or when the query cannot be
\* written, the sink receives Answer::Error(ServFail).
C16_TerminalOutcome ==
    \A t \in QuicTasks :
       /\ Expired(t) => SinkClosed(t)
       /\ SinkClosed(t) => qf_sink[t] # <<>>

\* C16 on the UDP forwarder: a task whose timeout has run out has been sent
\* Answer::Error(ServFail) and nothing else.
C16_OnUdpForwarder ==
    \A t \in Tasks : TimedOut(t) => sink[t] = <<Err("ServFail")>>

\* C17: when open_bi could not open a stream, neither at first nor after the
\* reconnect, the waiting transaction receives Answer::Error(ServFail) and
\* the forwarder is still running.
C17_OpenFailure ==
    \A t \in QuicTasks :
       qf_open[t] = "failed"
       => qf_sink[t] = <<Err("ServFail")>> /\ qf_run = "running"

\* C17, first half: a query whose stream was opened after one reconnect is
\* written and read like any other.
C17_RetriedOnce ==
    [][\A q \in Questions :
          (qf_n' = qf_n + 1 /\ qf_open'[qf_n'] = "retried")
          => qf_run' = "running" /\ qf_pc'[qf_n'] \in {"reading", "closed"}]_vars


\* the worker has stopped serving
Stopped == w_pc \in {"Closed", "Panicked"}

\* the number of ShutDown messages in a sequence of pool messages
RECURSIVE ShutDowns(_)
ShutDowns(msgs) ==
    IF msgs = <<>> THEN 0
    ELSE (IF Head(msgs) = "ShutDown" THEN 1 ELSE 0) + ShutDowns(Tail(msgs))

\* C18: a stream worker that has stopped serving, by whatever path, has sent
\* exactly one ShutDown to the pool, and that message is the last it sent.
C18_ShutDownOnce ==
    (proto = "stream" /\ Stopped)
    => /\ ShutDowns(updater) = 1
       /\ updater[Len(updater)] = "ShutDown"

\* C18 on the paths that leave Worker::run by break or return.
C18_OnReturn ==
    (proto = "stream" /\ w_pc = "Closed")
    => /\ ShutDowns(updater) = 1
       /\ updater[Len(updater)] = "ShutDown"

\* C19: once the pool has fired or dropped the worker's shutdown signal the
\* worker stops, whether or not the client sends anything more.
C19_ShutdownPrompt == (checker = "Closed") ~> Stopped

\* C19 at the loop head: a worker between two iterations stops once the
\* signal is gone.
C19_OnLoopHead == (checker = "Closed" /\ w_pc = "Idle") ~> Stopped


\* the handling of datagram d has ended and no send_to failed
Handled20(d) == u_pc[d] \in {"dropped", "done", "panicked"} /\ ~u_failed[d]

\* C20: a datagram of at least 12 bytes whose handling has ended has had
\* exactly one datagram sent back, also when the engine produced no record;
\* never is more than one sent back, and nothing for a shorter datagram.
C20_OneReply ==
    \A d \in Udps :
       /\ Len(u_out[d]) <= 1
       /\ (Handled20(d) /\ u_in[d].len >= 12) => Len(u_out[d]) = 1
       /\ (u_pc[d] # "none" /\ u_in[d].len < 12) => u_out[d] = <<>>

\* C20 without the empty answer stream: whenever the engine sends at least
\* one answer, or the packet is rejected before the engine is asked, exactly
\* one datagram goes back, and it carries the datagram's id.
C20_WhenAnswered ==
    \A d \in Udps :
       /\ Len(u_out[d]) <= 1
       /\ (u_pc[d] = "done") => (Len(u_out[d]) = 1 /\ u_in[d].len >= 12)
       /\ (u_pc[d] = "dropped") => (u_out[d] = <<>> /\ u_in[d].len < 12)


\* the one-shot sender of task t has been inserted into the table
Inserted(t) == rx[t] # "none"

\* the query packet of task t has been handed to the sending task
Queued(t) == chk[t] # "none"

\* the packets queued for emission, as a set
InBuf == {buf[i] : i \in 1..Len(buf)}

\* C21: the one-shot channel of a forwarded query is put in the in-flight
\* table under the query's id before the query packet is handed on for
\* emission: a task whose packet has been queued has had its channel
\* inserted, every packet queued or emitted is that of such a task, and the
\* task about to queue its packet has its channel inserted already.
C21_InsertBeforeEmit ==
    /\ \A t \in Tasks : Queued(t) => Inserted(t)
    /\ \A p \in InBuf \cup wire :
          \E t \in Tasks : task_id[t] = p.id /\ task_q[t] = p.q /\ Inserted(t)
    /\ main_pc = "sending" => Inserted(n_tasks)

\* C21 witness: a query packet is on the wire, its channel is in the table
\* under its id and still waited on
C21_Witness ==
    \E t \in Tasks :
       /\ [id |-> task_id[t], q |-> task_q[t]] \in wire
       /\ mp[task_id[t]] = t
       /\ rx[t] = "pending"


\* the question count of a 12-byte header
QdCount(bytes) == get_u16(bytes, 4)

\* C25: a 12-byte header with qdcount <= 1 is parsed, and emitting the
\* parsed header gives the same 12 bytes back: id, QR, opcode, AA, TC, RD,
\* RA, the Z bits, RCODE and the four counts are preserved.
C25_HeaderRoundTrip ==
    (c_fn = "Header::try_into_bytes" /\ Len(c_in) = 12 /\ QdCount(c_in) <= 1)
    => /\ c_out.parsed.kind = "ok"
       /\ c_out.bytes = c_in

\* C25 witness: a header with Z bits set, a reserved opcode and a reserved
\* RCODE has been parsed and emitted
C25_Witness ==
    /\ c_fn = "Header::try_into_bytes"
    /\ c_out.parsed.kind = "ok"
    /\ c_out.parsed.val.z = 7
    /\ c_out.parsed.val.opcode.key = "Reserved"
    /\ c_out.parsed.val.response.key = "Reserved"
    /\ Len(c_out.bytes) = 12

\* C26: on the same 12 bytes the buffer parser and the streaming parser
\* return the same header or the same error kind, and both reject
\* qdcount > 1 with ServFail.
C26_SameValidation ==
    (c_fn = "Header::parse_stream" /\ Len(c_in) = 12)
    => /\ c_out.buffer.kind = c_out.stream.kind
       /\ c_out.buffer.kind = "ok" => c_out.buffer.val = c_out.stream.val
       /\ c_out.buffer.kind = "err" => c_out.buffer.error = c_out.stream.error
       /\ QdCount(c_in) > 1
          => c_out.buffer.error = "ServFail" /\ c_out.stream.error = "ServFail"

\* C26, the part that holds: the two parsers accept the same 12-byte
\* inputs, return the same header for them and reject the same inputs
C26_SameAccepted ==
    (c_fn = "Header::parse_stream" /\ Len(c_in) = 12)
    => /\ c_out.buffer.kind = c_out.stream.kind
       /\ c_out.buffer.kind = "ok" => c_out.buffer.val = c_out.stream.val
       /\ c_out.buffer.kind = "err" => QdCount(c_in) > 1


\* C24: a name that Name::try_from accepts, names of the greatest total
\* length it allows included, is emitted uncompressed and parsed back at
\* offset 0: the parse succeeds with exactly the name's labels and an end
\* offset equal to the encoded length.
C24_NameRoundTrip ==
    (c_fn = "Name::as_bytes_uncompressed" /\ c_out.name.kind = "ok")
    => c_out.parsed = Ok(c_out.name.val, Len(c_out.bytes))

\* C24, the part that holds: the round trip of the names whose labels and
\* length bytes take fewer than MAX_NAME_LENGTH bytes together
C24_BelowMaximum ==
    (/\ c_fn = "Name::as_bytes_uncompressed"
     /\ c_out.name.kind = "ok"
     /\ total_len(c_out.name.val) < MAX_NAME_LENGTH)
    => c_out.parsed = Ok(c_out.name.val, Len(c_out.bytes))

\* C28: Name::parse ends on every input, pointer cycles and pointers to
\* themselves included: the loop makes a bounded number of iterations, a
\* name reached through at most 5 pointer hops is accepted and one that
\* needs more than 5 hops gives FormatError.  (A start offset outside the
\* packet ends the call by an abort before the loop.)
C28_ParseTerminates ==
    c_fn = "Name::parse"
    => /\ c_out.steps <= (MAX_JUMPS + 2) * (Len(c_in.packet) + 1)
       /\ c_out.jumps <= MAX_JUMPS + 1
       /\ c_out.kind = "ok" => c_out.jumps <= MAX_JUMPS
       /\ c_out.jumps > MAX_JUMPS
          => c_out.kind = "err" /\ c_out.error = "FormatError"
       /\ c_in.hops \in 0..MAX_JUMPS
          => /\ c_out.kind = "ok"
             /\ c_out.val = <<<<97>>>>
             /\ c_out.jumps = c_in.hops
       /\ c_in.hops > MAX_JUMPS
          => c_out.kind = "err" /\ c_out.error = "FormatError"

\* C28 witness: a pointer that points at itself has been followed until
\* the hop limit ended the parse
C28_Witness ==
    /\ c_fn = "Name::parse"
    /\ c_in.packet = <<PTR_MASK, 0>>
    /\ c_in.pos = 0
    /\ c_out.kind = "err"
    /\ c_out.jumps = MAX_JUMPS + 1

\* the top two bits of the byte at the offset the parse starts at
TopBits(packet, pos) == bitand(get_u8(packet, pos), PTR_MASK)

\* C29: a length byte whose top two bits are 01 or 10 gives FormatError,
\* and no parsed label is longer than 63 bytes.
C29_ReservedLengthRejected ==
    c_fn = "Name::parse"
    => /\ (c_in.pos < Len(c_in.packet) /\ TopBits(c_in.packet, c_in.pos) \in {64, 128})
          => c_out.kind = "err"
       /\ c_out.kind = "ok"
          => \A i \in 1..Len(c_out.val) : Len(c_out.val[i]) <= MAX_LABEL_LENGTH


\* C23: for every value V of every RRData variant, emitting V writes
\* RDLENGTH followed by the payload, and parsing those bytes returns V with
\* an end offset equal to the number of bytes emitted.
C23_RdataRoundTrip ==
    c_fn = "RRData::try_into_bytes"
    => /\ Len(c_out.bytes) >= 2
       /\ get_u16(c_out.bytes, 0) = Len(c_out.bytes) - 2
       /\ c_out.parsed = Ok(c_in, Len(c_out.bytes))

\* C23, the part that holds: the round trip of A, AAAA and TXT data, of
\* NULL and Unknown data that is not empty, and of the data holding names
\* when no name in it is the root
C23_RoundTripOfSome ==
    (/\ c_fn = "RRData::try_into_bytes"
     /\ \/ c_in.ty \in {"A", "Aaaa", "Txt"}
        \/ c_in.ty \in {"Null", "UNKNOWN"} /\ c_in.data # <<>>
        \/ c_in.ty \in NameTypes \cup {"Mx"} /\ c_in.domain # <<>>
        \/ c_in.ty = "Soa" /\ c_in.mname # <<>> /\ c_in.rname # <<>>
        \/ c_in.ty = "MInfo")
    => /\ get_u16(c_out.bytes, 0) = Len(c_out.bytes) - 2
       /\ c_out.parsed = Ok(c_in, Len(c_out.bytes))

\* what C30 says the parser of one-name record data returns at offset pos
NameRdataExpected(ty, packet, pos) ==
    LET n == Name_parse(packet, pos + 2)
    IN  IF n.kind = "ok" /\ n.end = pos + 2 + get_u16(packet, pos)
        THEN Ok([ty |-> ty, domain |-> n.val], n.end)
        ELSE PErr("FormatError")

\* C30: CNAME, NS, PTR, MB and MR data at any offset pos of a packet: the
\* parser reads RDLENGTH at pos and succeeds exactly when the name in it
\* ends at pos + 2 + RDLENGTH, returning that name and that end offset;
\* otherwise it returns FormatError.
C30_NameRdataAtOffset ==
    (/\ c_fn = "rdata_parse"
     /\ c_in.ty.key \in NameTypes
     /\ c_in.pos + 3 <= Len(c_in.packet))
    => c_out = NameRdataExpected(c_in.ty.key, c_in.packet, c_in.pos)

\* C30, the part that holds: CNAME, PTR, MB and MR data of which at least
\* four bytes are in the packet
C30_ExceptNs ==
    (/\ c_fn = "rdata_parse"
     /\ c_in.ty.key \in NameTypes \ {"Ns"}
     /\ c_in.pos + 4 <= Len(c_in.packet))
    => c_out = NameRdataExpected(c_in.ty.key, c_in.packet, c_in.pos)


\* a record without the size RR::parse computes for it
Unsized(rr) == [domain |-> rr.domain, ttl |-> rr.ttl, ty |-> rr.ty,
                class |-> rr.class, r_data |-> rr.r_data]
UnsizedAll(rrs) == [i \in 1..Len(rrs) |-> Unsized(rrs[i])]

\* the parse of the bytes of packet p gave p back: header, question and
\* the records of the three sections in order
SamePacket(p, r) ==
    /\ r.kind = "ok"
    /\ r.val.header = p.header
    /\ Len(r.val.question) = Len(p.question)
    /\ \A i \in 1..Len(p.question) :
          /\ r.val.question[i].name = p.question[i].name
          /\ r.val.question[i].ty = p.question[i].ty
          /\ r.val.question[i].class = p.question[i].class
    /\ UnsizedAll(r.val.answers) = UnsizedAll(p.answers)
    /\ UnsizedAll(r.val.authorities) = UnsizedAll(p.authorities)
    /\ UnsizedAll(r.val.additions) = UnsizedAll(p.additions)

\* C22: a packet built with new_plain_answer or new_query and the add_ and
\* set_ operations is emitted; parse_packet on the bytes succeeds and gives
\* the same id, flags, question and records in the same sections and
\* order, emitting the parsed packet gives the same bytes, and the same
\* holds for parse_stream on the length-prefixed bytes.
C22_PacketRoundTrip ==
    c_fn = "Packet::into_bytes"
    => /\ SamePacket(c_in, c_out.parsed)
       /\ c_out.again = c_out.bytes
       /\ SamePacket(c_in, c_out.streamed)
       /\ c_out.streamed_again = c_out.bytes

\* the record types whose data parses back inside a packet
SoundTypes == {"A", "Aaaa", "Cname", "Ptr", "Mx", "Txt", "Null"}

\* C22, the part that holds: the round trip of a packet that is not a
\* query with answers and whose records are of the types above
C22_OfSoundPackets ==
    (/\ c_fn = "Packet::into_bytes"
     /\ ~(c_in.header.is_query /\ c_in.header.answers # 0)
     /\ \A i \in 1..Len(c_in.answers) : c_in.answers[i].r_data.ty \in SoundTypes)
    => /\ SamePacket(c_in, c_out.parsed)
       /\ c_out.again = c_out.bytes
       /\ SamePacket(c_in, c_out.streamed)
       /\ c_out.streamed_again = c_out.bytes

\* C27: the header of the bytes parses and the bytes end before the
\* question and records the header counts are complete: parse_packet and
\* parse_stream return FormatError tagged with the id of the header, and
\* parsing never aborts.
C27_TruncatedIsFormatError ==
    (c_fn = "Packet::parse_packet" /\ ~c_in.whole)
    => /\ c_out.parsed = TErr(get_u16(c_in.bytes, 0), "FormatError")
       /\ c_out.streamed = TErr(get_u16(c_in.bytes, 0), "FormatError")

\* the offset after the first pointer or after the closing zero byte of the
\* name that begins at pos, found by stepping over the labels only
RECURSIVE EndOfName(_, _)
EndOfName(packet, pos) ==
    IF pos >= Len(packet) THEN -1
    ELSE IF packet[pos + 1] = 0 THEN pos + 1
    ELSE IF packet[pos + 1] >= PTR_MASK THEN pos + 2
    ELSE EndOfName(packet, pos + 1 + packet[pos + 1])

\* C31: for a name with compression pointers Name::parse returns as end
\* the offset two bytes past the first pointer met, wherever the pointers
\* lead; for a name without pointers it returns the offset just after the
\* closing zero byte.
C31_EndOffset ==
    (c_fn = "Name::parse" /\ c_out.kind = "ok")
    => /\ c_out.end = EndOfName(c_in.packet, c_in.pos)
       /\ c_in.hops >= 1 => c_out.end = c_in.pos + 2
       /\ c_out.jumps = 0 => c_in.packet[c_out.end] = 0

\* C31 witness: a label followed by a pointer to a pointer has been
\* parsed, two pointers were followed and the end is after the first
C31_Witness ==
    /\ c_fn = "Name::parse"
    /\ c_in.packet = <<0, PTR_MASK, 0, 1, 98, PTR_MASK, 1>>
    /\ c_in.pos = 3
    /\ c_out.kind = "ok"
    /\ c_out.val = <<<<98>>>>
    /\ c_out.jumps = 2
    /\ c_out.end = 7

\* C32: after any sequence of set_question, set_answers, set_authorities,
\* set_addtionals, add_answer, add_authority and add_addition on a packet
\* made by new_plain_answer, new_query or new_failure, the header counts
\* are 1 or 0 as a question is present or not, and the lengths of the
\* answers, authorities and additions vectors.
C32_CountsMatch ==
    Building
    => /\ c_out.header.questions = Len(c_out.question)
       /\ c_out.header.answers = Len(c_out.answers)
       /\ c_out.header.authorities = Len(c_out.authorities)
       /\ c_out.header.additional = Len(c_out.additions)

\* C32 witness: a failure packet that was given a question and records in
\* every section, a vector of answers having replaced a longer one
C32_Witness ==
    /\ c_fn = "Packet::set_answers"
    /\ c_out.header.response = Rcode_from(2)
    /\ c_out.question # <<>>
    /\ Len(c_out.answers) = 1
    /\ Len(c_out.authorities) = MaxRecords
    /\ Len(c_out.additions) = 1

\* an answer sequence with the TTLs left out: the records and their tags
RECURSIVE Untimed(_)
Untimed(data) ==
    IF data = <<>> THEN <<>>
    ELSE <<Rec(Head(data).tag, Head(data).rr)>> \o Untimed(Tail(data))

\* C33: a query answered from the engine's cache is sent the same records
\* the upstream returned to the forwarding task that filled the entry, all
\* of them and each with the section tag it arrived with; only the TTL
\* differs.
C33_HitReturnsAll ==
    \A t, f \in Txs :
       (/\ tx_pc[t] = "done" /\ tx_got[t] = <<>>
        /\ tx_q[f] = tx_q[t] /\ tx_cached[f] /\ tx_pc[f] = "done"
        /\ tx_sent[tx_q[t]] = 1)
       => Untimed(tx_sink[t]) = Untimed(tx_got[f])

\* C34: when parse_stream returns for a frame whose length prefix L is at
\* least 12 and whose L bytes are all in the stream, it has consumed the
\* 2 + L bytes of the frame, no more and no less, and its result is the
\* one it gives when the frame arrives in one piece, however the transport
\* split or coalesced the reads.
C34_WholeFrame ==
    c_fn = "Packet::parse_stream"
    => /\ c_out.consumed = Len(c_in.frame)
       /\ c_out.result = c_out.whole

\* C35: a ShutDown message never takes from the pool the sender of a worker
\* other than the one that sent it: the receiver of a worker that serves a
\* reconnected client is closed by the updating task only on that worker's
\* own ShutDown.
C35_OwnShutDownOnly ==
    [][\A w \in Conns :
          (/\ sv_message # <<>> /\ sv_message' = Tail(sv_message)
           /\ Head(sv_message).kind = "ShutDown"
           /\ sv_checker[w] = "Empty" /\ sv_checker'[w] = "Closed")
          => Head(sv_message).from = w]_vars

\* C36: after an accept or a TLS handshake has failed the accept loop of
\* the listening task is still running.
C36_AcceptLoopSurvives ==
    sv_acquired \in {"accept", "handshake"} => sv_accepting

\* C37: the worker's flag is raised only by a step that read a rejected
\* frame (unparsable or not a query); a step in which an Answer::Error of
\* the engine is handled leaves a clear flag clear, in the generic worker
\* and in the QUIC worker.
C37_SuspectOnlyByClient ==
    [][(~is_suspected /\ is_suspected')
       => (Len(rd') = Len(rd) + 1 /\ Rejected(rd'[Len(rd')]))]_vars

\* the records of an answer sequence that carry the tag, in order
RECURSIVE OfTag(_, _)
OfTag(data, tag) ==
    IF data = <<>> THEN <<>>
    ELSE (IF Head(data).tag = tag THEN <<Head(data).rr>> ELSE <<>>)
         \o OfTag(Tail(data), tag)

\* C38: the response sent for a UDP query holds every record the engine
\* had sent on the query's answer channel, the Answer records in answers,
\* the NameServer records in authorities and the Additional records in
\* additions.
C38_EveryRecord ==
    \A d \in Udps :
       (u_pc[d] = "done" /\ u_emitted[d] # <<>> /\ OfTag(u_emitted[d], "Error") = <<>>)
       => /\ u_out[d][1].answers = OfTag(u_emitted[d], "Answer")
          /\ u_out[d][1].auths = OfTag(u_emitted[d], "NameServer")
          /\ u_out[d][1].additionals = OfTag(u_emitted[d], "Additional")

\* C39: two names compare equal exactly when they have the same number of
\* labels and the same labels, byte for byte; the comparison is reflexive,
\* symmetric and transitive, and no name is equal to a proper prefix of
\* itself or, unless it is the root, to the root.
C39_StructuralEq ==
    c_fn = "Name::eq"
    => /\ c_out.xy = (c_in.x = c_in.y)
       /\ c_out.xx
       /\ c_out.xy = c_out.yx
       /\ (c_out.xy /\ c_out.yz) => c_out.xz

====
